---- MODULE Spec2Model ----
(***************************************************************************)
(* Model of the easy-genomics top-level bucket object listing handler      *)
(* (request-top-level-bucket-objects lambda): request parsing and schema   *)
(* validation, laboratory lookup, authorization, derivation of the         *)
(* effective bucket and prefix, and the continuation-token pagination      *)
(* loop that aggregates every page into one response.                      *)
(***************************************************************************)
EXTENDS Integers, Sequences, FiniteSets, TLC

(***************************************************************************)
(* Bounds                                                                  *)
(***************************************************************************)
\* Longest upstream page chain the object store is allowed to serve.
MaxPages == 3

(***************************************************************************)
(* JavaScript values.  Every scalar is a record of one shape so that the   *)
(* values of different JavaScript types can be compared.                   *)
(***************************************************************************)
Undefined == [t |-> "undefined", s |-> "", n |-> 0, b |-> FALSE]
Null == [t |-> "null", s |-> "", n |-> 0, b |-> FALSE]
Str(x) == [t |-> "string", s |-> x, n |-> 0, b |-> FALSE]
Num(k) == [t |-> "number", s |-> "", n |-> k, b |-> FALSE]
Bool(v) == [t |-> "boolean", s |-> "", n |-> 0, b |-> v]

\* ToBoolean of a scalar: "", 0, false, null and undefined are falsy.
Truthy(v) ==
  CASE v.t = "string" -> v.s # ""
    [] v.t = "number" -> v.n # 0
    [] v.t = "boolean" -> v.b
    [] OTHER -> FALSE

\* a || b on scalars
OrElse(a, b) == IF Truthy(a) THEN a ELSE b

\* An optional array: a defined array is truthy even when it is empty.
Arr(items) == [defined |-> TRUE, items |-> items]
NoArr == [defined |-> FALSE, items |-> <<>>]

(***************************************************************************)
(* Request bodies on the wire                                              *)
(***************************************************************************)
\* A parsed JSON object restricted to the four schema keys plus one key
\* ("Extra") standing for any key outside the schema; Undefined = key absent.
Obj(l, b, p, m, x) ==
  [kind |-> "object",
   fields |-> [LaboratoryId |-> l, S3Bucket |-> b, S3Prefix |-> p, MaxKeys |-> m, Extra |-> x]]
NoFields ==
  [LaboratoryId |-> Undefined, S3Bucket |-> Undefined, S3Prefix |-> Undefined,
   MaxKeys |-> Undefined, Extra |-> Undefined]
\* JSON values that are not objects: null, a number, an array.
JsonNull == [kind |-> "null", fields |-> NoFields]
JsonNumber == [kind |-> "number", fields |-> NoFields]
JsonArray == [kind |-> "array", fields |-> NoFields]

LabIdValues == {Undefined, Null, Num(7), Str("lab-1"), Str("lab-2"), Str("lab-x")}
BucketValues == {Undefined, Str(""), Str("custom-bucket")}
PrefixValues == {Undefined, Str(""), Str("custom-prefix/")}
MaxKeysValues == {Undefined, Num(0), Num(2), Str("2")}
ExtraValues == {Undefined, Str("x")}

JsonValues ==
  {Obj(l, b, p, Undefined, Undefined) : l \in LabIdValues, b \in BucketValues, p \in PrefixValues}
  \cup {Obj(Str("lab-1"), Undefined, Undefined, m, x) : m \in MaxKeysValues, x \in ExtraValues}
  \cup {Obj(Str("lab-1"), Num(7), Undefined, Undefined, Undefined),
        Obj(Str("lab-1"), Undefined, Null, Undefined, Undefined),
        Obj(Undefined, Undefined, Undefined, Undefined, Str("x")),
        JsonNull, JsonNumber, JsonArray}

\* The values that also travel base64-encoded.
Base64JsonValues ==
  {Obj(Str("lab-1"), Undefined, Undefined, m, Undefined) : m \in MaxKeysValues}
  \cup {Obj(Undefined, Undefined, Undefined, Undefined, Undefined),
        Obj(Str("lab-1"), Undefined, Undefined, Undefined, Str("x"))}

\* A text that is not JSON (e.g. "{").
Malformed == [wellFormed |-> FALSE, value |-> JsonNull]
\* JSON.stringify(value)
JsonText(v) == [wellFormed |-> TRUE, value |-> v]

\* event.body: null, or a string holding a text either as is or base64-encoded
NullBody == [isNull |-> TRUE, encoding |-> "plain", text |-> Malformed]
Body(enc, text) == [isNull |-> FALSE, encoding |-> enc, text |-> text]

(***************************************************************************)
(* Caller identity and the laboratory directory                            *)
(***************************************************************************)
Laboratories ==
  {[OrganizationId |-> Str("org-1"), LaboratoryId |-> Str("lab-1"), S3Bucket |-> Str("lab-bucket")],
   [OrganizationId |-> Str("org-1"), LaboratoryId |-> Str("lab-2"), S3Bucket |-> Undefined]}
NoLaboratory == [OrganizationId |-> Undefined, LaboratoryId |-> Undefined, S3Bucket |-> Undefined]

\* The capabilities the caller's claims grant: organizations administered,
\* <<organization, laboratory>> pairs managed and pairs worked in.
Claims(a, m, t) == [OrganizationAdmin |-> a, LabManager |-> m, LabTechnician |-> t]
CallerClaims ==
  {Claims({}, {}, {}),
   Claims({"org-1"}, {}, {}),
   Claims({}, {<<"org-1", "lab-1">>}, {}),
   Claims({}, {}, {<<"org-1", "lab-1">>}),
   Claims({"org-2"}, {<<"org-1", "lab-2">>}, {<<"org-2", "lab-1">>})}

GatewayContext ==
  [requestId |-> Str("gw-request-id"), extendedRequestId |-> Str("gw-extended-id")]

Event(body, b64, claims) ==
  [body |-> body, isBase64Encoded |-> b64, claims |-> claims, requestContext |-> GatewayContext]

Events ==
  {Event(Body("plain", JsonText(v)), FALSE, c) : v \in JsonValues, c \in CallerClaims}
  \cup {Event(Body("base64", JsonText(v)), TRUE, c) : v \in Base64JsonValues, c \in CallerClaims}
  \cup {Event(Body(e, Malformed), f, Claims({"org-1"}, {}, {})) : e \in {"plain", "base64"}, f \in BOOLEAN}
  \cup {Event(Body(e, JsonText(Obj(Str("lab-1"), Undefined, Undefined, Undefined, Undefined))), f,
              Claims({"org-1"}, {}, {})) : e \in {"plain", "base64"}, f \in BOOLEAN}
  \cup {Event(NullBody, f, Claims({"org-1"}, {}, {})) : f \in BOOLEAN}

(***************************************************************************)
(* Pages served by the object store                                        *)
(***************************************************************************)
Key1 == [Key |-> "org-1/lab-1/sample1.fastq.gz"]
Key2 == [Key |-> "org-1/lab-1/sample2.fastq.gz"]
PrefixA == [Prefix |-> "org-1/lab-1/a/"]
PrefixB == [Prefix |-> "org-1/lab-1/b/"]

\* <<Contents, CommonPrefixes>> of a page; either may be absent.
PageListings ==
  {<<NoArr, NoArr>>,
   <<Arr(<<Key1>>), Arr(<<PrefixA>>)>>,
   <<Arr(<<Key2, Key1>>), NoArr>>,
   <<Arr(<<>>), Arr(<<PrefixB, PrefixA>>)>>}

\* <<IsTruncated, NextContinuationToken>> of a page.
TruncatedCursors == {<<Bool(TRUE), Str("token-1")>>, <<Bool(TRUE), Str("token-2")>>, <<Bool(TRUE), Undefined>>}
FinalCursors == {<<Bool(FALSE), Undefined>>, <<Undefined, Str("token-1")>>}

\* The k-th ListObjectsV2 output of an invocation; the store stamps every
\* output with a request id of its own.
Page(listing, cursor, k) ==
  [Contents |-> listing[1],
   CommonPrefixes |-> listing[2],
   IsTruncated |-> cursor[1],
   NextContinuationToken |-> cursor[2],
   metadata |-> [httpStatusCode |-> 200,
                 requestId |-> Str("s3-request-" \o ToString(k)),
                 extendedRequestId |-> Str("s3-extended-" \o ToString(k)),
                 attempts |-> 1,
                 totalRetryDelay |-> 0]]

(***************************************************************************)
(* State                                                                   *)
(***************************************************************************)
VARIABLES
  event,              \* the API gateway event of this invocation
  pc,                 \* "start", "lookup", "listing" or "done"
  request,            \* the parsed request body (its fields)
  laboratory,         \* the resolved laboratory record
  s3Bucket,           \* effective bucket
  s3Prefix,           \* effective prefix
  allContents,        \* aggregated Contents
  allCommonPrefixes,  \* aggregated CommonPrefixes
  isTruncated,        \* loop condition
  continuationToken,  \* token for the next listing call
  lookups,            \* calls made to laboratoryService.queryByLaboratoryId
  calls,              \* calls made to s3Service.listBucketObjectsV2
  pages,              \* outputs those calls resolved with
  result              \* the APIGatewayProxyResult returned

(***************************************************************************)
(* State of the file tree component (lazy directory tree of the front end) *)
(***************************************************************************)
VARIABLES
  mounted,            \* onMounted has run
  propsS3Prefix,      \* props.s3Prefix as the parent currently passes it
  treeS3Prefix,       \* const s3Prefix = props.s3Prefix, taken once at setup
  startPath,          \* props.startPath
  currentPath,        \* currentPath.value: the nodes from the root to the open directory
  rootCount,          \* number of synthetic root nodes created so far
  nodeChildren,       \* node.children of the nodes whose children were assigned
  nodeLoading,        \* the nodes whose isLoading is true
  loadedDirectories,  \* loadedDirectories.value: cache key -> cached children array
  fetches,            \* every requestTopLevelBucketObjects call, with its state
  cleared,            \* number of loadedDirectories.clear() calls
  isRootLoading,      \* isRootLoading.value
  hasOpenedStartPath, \* hasOpenedStartPath.value
  rendered,           \* which copies currentItems made for the rows now shown
  debounced,          \* the row held by the debounce timer of onRowClicked
  toasts              \* error toasts raised

treeVars ==
  <<mounted, propsS3Prefix, treeS3Prefix, startPath, currentPath, rootCount, nodeChildren,
    nodeLoading, loadedDirectories, fetches, cleared, isRootLoading, hasOpenedStartPath,
    rendered, debounced, toasts>>

handlerVars ==
  <<event, pc, request, laboratory, s3Bucket, s3Prefix, allContents, allCommonPrefixes,
    isTruncated, continuationToken, lookups, calls, pages, result>>

(***************************************************************************)
(* A call of transformS3Response on its own                                *)
(***************************************************************************)
VARIABLES
  listed,             \* the S3TopLevelResponse passed to transformS3Response
  transformed         \* the array it returned, once it has returned

transformVars == <<listed, transformed>>

(***************************************************************************)
(* State of one downloadFolder call (useFileDownload composable)           *)
(***************************************************************************)
VARIABLES
  folderS3Uri,        \* the folderS3Uri argument
  downloadPc,         \* "idle", "listing", "files", "zip" or "done"
  objects,            \* listResponse.Contents ?? []
  settled,            \* the objects whose download callback has finished
  completedCount,     \* completedCount
  progressRef,        \* progressRef.value
  zip,                \* the paths added with zip.file
  saved,              \* the names saveAs was called with
  notices             \* the toasts raised through the toast store

downloadVars ==
  <<folderS3Uri, downloadPc, objects, settled, completedCount, progressRef, zip, saved, notices>>

(***************************************************************************)
(* State of the toast store and of one run of the OAuth callback page      *)
(***************************************************************************)
VARIABLES
  toastList,          \* this.toasts of the toast store
  uuids,              \* how many different values uuidv4() has returned
  session,            \* what Amplify holds: the signed-in user and the token
  callbackPc,         \* "created", "auth", "userData", "orgs", "token" or "done"
  userData,           \* outcome of setCurrentUserDataFromToken
  orgs,               \* outcome of loadOrgs
  redirects           \* the paths navigateTo was called with

frontEndVars == <<toastList, uuids, session, callbackPc, userData, orgs, redirects>>

vars == <<handlerVars, treeVars, transformVars, downloadVars, frontEndVars>>

(***************************************************************************)
(* Body parsing and validation                                             *)
(***************************************************************************)
Thrown == [threw |-> TRUE, body |-> NullBody]
Returned(b) == [threw |-> FALSE, body |-> b]

\* atob(body): decodes base64; a text with characters outside the base64
\* alphabet (any JSON object text) throws, and null is coerced to the string
\* "null", whose decoding is three bytes that are not JSON.
Atob(body) ==
  IF body.isNull THEN Returned(Body("plain", Malformed))
  ELSE IF body.encoding = "base64" THEN Returned(Body("plain", body.text))
  ELSE Thrown

ParseFailed == [ok |-> FALSE, value |-> JsonNull]
Parsed(v) == [ok |-> TRUE, value |-> v]

\* JSON.parse(text): null is coerced to "null" and parses to null; a base64
\* text or a malformed text throws SyntaxError.
JSONParse(body) ==
  IF body.isNull THEN Parsed(JsonNull)
  ELSE IF body.encoding = "base64" THEN ParseFailed
  ELSE IF body.text.wellFormed THEN Parsed(body.text.value)
  ELSE ParseFailed

ParseBody(ev) ==
  IF ev.isBase64Encoded
    THEN LET decoded == Atob(ev.body) IN
         IF decoded.threw THEN ParseFailed ELSE JSONParse(decoded.body)
    ELSE JSONParse(ev.body)

IsString(v) == v.t = "string"
IsNumber(v) == v.t = "number"
IsOptional(v, ok) == v.t = "undefined" \/ ok

\* Variant: LaboratoryId declared optional.
SchemaValidOptionalLaboratoryId(value) ==
  /\ value.kind = "object"
  /\ IsOptional(value.fields.LaboratoryId, IsString(value.fields.LaboratoryId))
  /\ IsOptional(value.fields.S3Bucket, IsString(value.fields.S3Bucket))
  /\ IsOptional(value.fields.S3Prefix, IsString(value.fields.S3Prefix))
  /\ IsOptional(value.fields.MaxKeys, IsNumber(value.fields.MaxKeys))
  /\ value.fields.Extra.t = "undefined"

\* Variant: the object schema without .strict(), unknown keys are ignored.
SchemaValidNotStrict(value) ==
  /\ value.kind = "object"
  /\ IsString(value.fields.LaboratoryId)
  /\ IsOptional(value.fields.S3Bucket, IsString(value.fields.S3Bucket))
  /\ IsOptional(value.fields.S3Prefix, IsString(value.fields.S3Prefix))
  /\ IsOptional(value.fields.MaxKeys, IsNumber(value.fields.MaxKeys))

\* RequestTopLevelBucketObjectsSchema.safeParse(value).success
SchemaValid(value) ==
  /\ value.kind = "object"
  /\ IsString(value.fields.LaboratoryId)
  /\ IsOptional(value.fields.S3Bucket, IsString(value.fields.S3Bucket))
  /\ IsOptional(value.fields.S3Prefix, IsString(value.fields.S3Prefix))
  /\ IsOptional(value.fields.MaxKeys, IsNumber(value.fields.MaxKeys))
  /\ value.fields.Extra.t = "undefined"

(***************************************************************************)
(* Collaborators outside the handler                                       *)
(***************************************************************************)
validateOrganizationAdminAccess(ev, organizationId) ==
  organizationId.s \in ev.claims.OrganizationAdmin
validateLaboratoryManagerAccess(ev, organizationId, laboratoryId) ==
  <<organizationId.s, laboratoryId.s>> \in ev.claims.LabManager
validateLaboratoryTechnicianAccess(ev, organizationId, laboratoryId) ==
  <<organizationId.s, laboratoryId.s>> \in ev.claims.LabTechnician

\* laboratoryService.queryByLaboratoryId: the records with that id
queryByLaboratoryId(laboratoryId) ==
  {lab \in Laboratories : lab.LaboratoryId = laboratoryId}

ErrorStatus(kind) ==
  CASE kind = "InvalidRequestError" -> 400
    [] kind = "UnauthorizedAccessError" -> 403
    [] OTHER -> 500
buildErrorResponse(kind, message) ==
  [statusCode |-> ErrorStatus(kind), body |-> [Error |-> kind, Message |-> message]]
buildResponse(statusCode, body) == [statusCode |-> statusCode, body |-> body]

NoResult == [statusCode |-> 0, body |-> [Error |-> "", Message |-> ""]]

(***************************************************************************)
(* The handler                                                             *)
(***************************************************************************)
\* Variant: every error is reported as it was thrown.
CatchReportingAll(kind) == buildErrorResponse(kind, kind)

\* catch (error): the two HTTP errors are reported as they are, anything
\* else as a generic internal error.
Catch(kind) ==
  IF kind = "InvalidRequestError" THEN buildErrorResponse(kind, "Invalid request")
  ELSE IF kind = "UnauthorizedAccessError" THEN buildErrorResponse(kind, "Unauthorized access")
  ELSE buildErrorResponse("Error", "Internal server error")

\* Variant: a manager of any laboratory of the organization passes.
AuthorizedAcrossLaboratories(ev, lab) ==
  \/ validateOrganizationAdminAccess(ev, lab.OrganizationId)
  \/ \E pair \in ev.claims.LabManager : pair[1] = lab.OrganizationId.s
  \/ validateLaboratoryTechnicianAccess(ev, lab.OrganizationId, lab.LaboratoryId)

\* Variant: the technician check is left out.
AuthorizedWithoutTechnician(ev, lab) ==
  \/ validateOrganizationAdminAccess(ev, lab.OrganizationId)
  \/ validateLaboratoryManagerAccess(ev, lab.OrganizationId, lab.LaboratoryId)

Authorized(ev, lab) ==
  \/ validateOrganizationAdminAccess(ev, lab.OrganizationId)
  \/ validateLaboratoryManagerAccess(ev, lab.OrganizationId, lab.LaboratoryId)
  \/ validateLaboratoryTechnicianAccess(ev, lab.OrganizationId, lab.LaboratoryId)

\* Variant: the laboratory's bucket wins over the requested one.
EffectiveBucketLaboratoryFirst(req, lab) ==
  IF Truthy(lab.S3Bucket) THEN lab.S3Bucket ELSE OrElse(req.S3Bucket, Str(""))

EffectiveBucket(req, lab) ==
  IF Truthy(req.S3Bucket) THEN req.S3Bucket ELSE OrElse(lab.S3Bucket, Str(""))

EffectivePrefix(req, lab) ==
  IF Truthy(req.S3Prefix) THEN req.S3Prefix
  ELSE Str(lab.OrganizationId.s \o "/" \o lab.LaboratoryId.s \o "/")

DefaultMaxKeys == 1000

\* Variant: calls that carry a token fall back to the default page size.
ListRequestDefaultSizeWithToken(bucket, prefix, req, token) ==
  [Bucket |-> bucket,
   Prefix |-> prefix,
   Delimiter |-> "/",
   MaxKeys |-> IF token = Undefined THEN OrElse(req.MaxKeys, Num(DefaultMaxKeys)) ELSE Num(DefaultMaxKeys),
   ContinuationToken |-> token]

\* The argument of one s3Service.listBucketObjectsV2 call.
ListRequest(bucket, prefix, req, token) ==
  [Bucket |-> bucket,
   Prefix |-> prefix,
   Delimiter |-> "/",
   MaxKeys |-> OrElse(req.MaxKeys, Num(DefaultMaxKeys)),
   ContinuationToken |-> token]

InitialAll == Arr(<<>>)

\* Variant: the page is put in front of what was aggregated so far.
ConcatPageInFront(all, pageItems) ==
  IF pageItems.defined THEN Arr(pageItems.items \o all.items) ELSE all

\* Variant: no guard, an absent array makes the aggregate undefined.
ConcatPageUnguarded(all, pageItems) ==
  IF pageItems.defined THEN Arr(all.items \o pageItems.items) ELSE NoArr

\* if (response.X) all = all.concat(response.X)
ConcatPage(all, pageItems) ==
  IF pageItems.defined THEN Arr(all.items \o pageItems.items) ELSE all

\* Variant: the loop is left after the first page.
StillTruncatedNever(response) == FALSE
\* Variant: loops while a token is present instead of while truncated.
StillTruncatedByToken(response) == Truthy(response.NextContinuationToken)

\* isTruncated = !!response.IsTruncated
StillTruncated(response) == Truthy(response.IsTruncated)

\* Variant: the token of the page is dropped.
NextTokenDropped(response) == Undefined

\* continuationToken = response.NextContinuationToken
NextToken(response) == response.NextContinuationToken

ResponseMetadata(ev) ==
  [httpStatusCode |-> 200,
   requestId |-> ev.requestContext.requestId,
   extendedRequestId |-> OrElse(ev.requestContext.extendedRequestId, Str("unknown")),
   attempts |-> 1,
   totalRetryDelay |-> 0]

\* JSON.stringify of the aggregated listing, as the client parses it back: an
\* undefined member would be left out of the text, arrays keep their order.
ListingBody(ev, contents, commonPrefixes) ==
  [metadata |-> ResponseMetadata(ev),
   Contents |-> contents,
   CommonPrefixes |-> commonPrefixes,
   IsTruncated |-> Bool(FALSE)]

(***************************************************************************)
(* File tree: strings, the stored objects and the listing transformation   *)
(***************************************************************************)
\* A string is kept as the list of its pieces between slashes (what
\* split('/') returns): "lab/a/" is <<"lab", "a", "">>, "" is <<"">>.
Text(name) == <<name>>
Slash == <<"", "">>
StrCat(a, b) == SubSeq(a, 1, Len(a) - 1) \o <<a[Len(a)] \o b[1]>> \o Tail(b)
EndsWithSlash(str) == Len(str) >= 2 /\ str[Len(str)] = ""
\* str.split('/').pop()
LastSegment(str) == str[Len(str)]
\* str.replace(/\/$/, '')
WithoutTrailingSlash(str) == IF EndsWithSlash(str) THEN SubSeq(str, 1, Len(str) - 1) ELSE str
\* names.join('/')
RECURSIVE Join(_)
Join(names) ==
  IF Len(names) = 0 THEN Text("")
  ELSE IF Len(names) = 1 THEN Text(names[1])
  ELSE StrCat(StrCat(Text(names[1]), Slash), Join(Tail(names)))

\* props.s3Bucket and props.labId of the component
TreeBucket == "lab-bucket"
TreeLabId == "lab-1"
\* The values props.s3Prefix takes.
RootPrefixes == {<<"lab">>, <<"other", "">>}

\* The props the component is created with: <<s3Prefix, startPath>>
Setups == {<<<<"lab">>, <<>>>>, <<<<"other", "">>, <<"a", "c", "x">>>>}

S3Object(key, size) == [Key |-> key, Size |-> size, LastModified |-> "2025-02-18T10:00:00Z"]
S3CommonPrefix(prefix) == [Prefix |-> prefix]
TopLevelResponse(contents, commonPrefixes) ==
  [Contents |-> contents, CommonPrefixes |-> commonPrefixes, IsTruncated |-> FALSE]

\* What the listing endpoint answers for a prefix: the objects and the
\* sub-prefixes one level below it.  The stored objects do not change.
StoreListing(prefix) ==
  CASE prefix = <<"lab", "">> ->
         TopLevelResponse(Arr(<<S3Object(<<"lab", "">>, 0), S3Object(<<"lab", "f.txt">>, 7)>>),
                          Arr(<<S3CommonPrefix(<<"lab", "a", "">>), S3CommonPrefix(<<"lab", "b", "">>)>>))
    [] prefix = <<"lab", "a", "">> ->
         TopLevelResponse(Arr(<<S3Object(<<"lab", "a", "g.txt">>, 3)>>),
                          Arr(<<S3CommonPrefix(<<"lab", "a", "c", "">>)>>))
    [] prefix = <<"lab", "a", "c", "">> ->
         TopLevelResponse(Arr(<<S3Object(<<"lab", "a", "c", "h.txt">>, 5)>>), NoArr)
    [] prefix = <<"lab", "b", "">> ->
         TopLevelResponse(Arr(<<S3Object(<<"lab", "b", "">>, 0)>>), Arr(<<>>))
    [] prefix = <<"other", "">> ->
         TopLevelResponse(NoArr, Arr(<<S3CommonPrefix(<<"other", "a", "">>)>>))
    [] prefix = <<"other", "a", "">> ->
         TopLevelResponse(Arr(<<>>), Arr(<<S3CommonPrefix(<<"other", "a", "c", "">>)>>))
    [] prefix = <<"other", "a", "c", "">> ->
         TopLevelResponse(Arr(<<S3Object(<<"other", "a", "c", "h.txt">>, 5)>>), Arr(<<>>))
    [] OTHER -> TopLevelResponse(Arr(<<>>), Arr(<<>>))

\* The node literals.  A file node has no children property (NoArr), a
\* directory node starts with children: []; what is assigned to node.children
\* later is kept in nodeChildren.
FileNode(item) ==
  [type |-> "file", name |-> LastSegment(item.Key), size |-> item.Size, lastModified |-> item.LastModified,
   children |-> NoArr]
DirectoryNodeNamedByWholePrefix(prefix) ==
  [type |-> "directory", name |-> LastSegment(prefix.Prefix), size |-> 0,
   lastModified |-> "", children |-> Arr(<<>>)]
DirectoryNode(prefix) ==
  [type |-> "directory", name |-> LastSegment(WithoutTrailingSlash(prefix.Prefix)), size |-> 0,
   lastModified |-> "", children |-> Arr(<<>>)]

RECURSIVE FileNodes(_)
FileNodes(contents) ==
  IF Len(contents) = 0 THEN <<>>
  ELSE IF EndsWithSlash(Head(contents).Key) THEN FileNodes(Tail(contents))
  ELSE <<FileNode(Head(contents))>> \o FileNodes(Tail(contents))

transformS3Response(response) ==
  (IF response.Contents.defined THEN FileNodes(response.Contents.items) ELSE <<>>)
  \o (IF response.CommonPrefixes.defined
        THEN [i \in 1..Len(response.CommonPrefixes.items) |-> DirectoryNode(response.CommonPrefixes.items[i])]
        ELSE <<>>)

\* `${s3Bucket}::${prefix}`
CacheKey(bucket, prefix) == <<bucket, prefix>>
\* s3Prefix.endsWith('/') ? s3Prefix : `${s3Prefix}/`
WithSlash(prefix) == IF EndsWithSlash(prefix) THEN prefix ELSE StrCat(prefix, Slash)
\* `${prefixPath}${child.name}/`
ChildPrefix(prefixPath, name) == StrCat(StrCat(prefixPath, Text(name)), Slash)

\* Nodes are objects: <<n, i>> is the i-th node of the array made from the
\* answer to fetch n, <<0, r, 0>> the r-th synthetic root.  Array 0 is [].
\* <<n, i, c>> with c > 0 is the c-th copy { ...node } that currentItems made
\* of <<n, i, 0>>.
RootNode(r) == <<0, r, 0>>
NoNode == <<0, 0, 0>>
RootInfo == [type |-> "", name |-> "All Files", size |-> 0, lastModified |-> "", children |-> Arr(<<>>)]

\* The component before it is mounted, with given props.
TreeSetup(prefix, steps) ==
  /\ mounted = FALSE
  /\ propsS3Prefix = prefix
  /\ treeS3Prefix = prefix
  /\ startPath = steps
  /\ currentPath = <<RootNode(1)>>
  /\ rootCount = 1
  /\ nodeChildren = <<>>
  /\ nodeLoading = {}
  /\ loadedDirectories = <<>>
  /\ fetches = <<>>
  /\ cleared = 0
  /\ isRootLoading = FALSE
  /\ hasOpenedStartPath = FALSE
  /\ rendered = 1
  /\ debounced = NoNode
  /\ toasts = 0

\* Before transformS3Response is called with a response.
TransformSetup(response) ==
  /\ listed = response
  /\ transformed = NoArr

\* The toast store as created (initialState) and the callback page before
\* it is mounted, with what Amplify holds at that time.
FrontEndSetup(user, token, defaultLaboratory) ==
  /\ toastList = <<>>
  /\ uuids = 0
  /\ session = [user |-> user, token |-> token, DefaultLaboratory |-> defaultLaboratory]
  /\ callbackPc = "created"
  /\ userData = "none"
  /\ orgs = "none"
  /\ redirects = <<>>

\* Before downloadFolder is called; the caller passes progressRef = ref(0).
DownloadSetup(uri) ==
  /\ folderS3Uri = uri
  /\ downloadPc = "idle"
  /\ objects = <<>>
  /\ settled = {}
  /\ completedCount = 0
  /\ progressRef = 0
  /\ zip = {}
  /\ saved = <<>>
  /\ notices = <<>>

\* The handler when it is invoked with event ev.
HandlerSetup(ev) ==
  /\ event = ev
  /\ pc = "start"
  /\ request = NoFields
  /\ laboratory = NoLaboratory
  /\ s3Bucket = Undefined
  /\ s3Prefix = Undefined
  /\ allContents = InitialAll
  /\ allCommonPrefixes = InitialAll
  /\ isTruncated = TRUE
  /\ continuationToken = Undefined
  /\ lookups = <<>>
  /\ calls = <<>>
  /\ pages = <<>>
  /\ result = NoResult

Init ==
  /\ TreeSetup(<<"lab">>, <<>>)
  /\ TransformSetup(TopLevelResponse(NoArr, NoArr))
  /\ DownloadSetup(<<"s3:", "", TreeBucket>>)
  /\ FrontEndSetup("rejects", "rejects", Undefined)
  /\ \E ev \in Events : HandlerSetup(ev)

\* The handler returns (or its catch block does).
Return(r) ==
  /\ pc' = "done"
  /\ result' = r

\* Lines 38-49: parse and validate the body, then ask for the laboratory.
Start ==
  /\ UNCHANGED <<treeVars, transformVars, downloadVars, frontEndVars>>
  /\ pc = "start"
  /\ LET parsed == ParseBody(event) IN
     IF ~parsed.ok THEN
       /\ Return(Catch("SyntaxError"))
       /\ UNCHANGED <<request, lookups>>
     ELSE IF ~SchemaValid(parsed.value) THEN
       /\ Return(Catch("InvalidRequestError"))
       /\ UNCHANGED <<request, lookups>>
     ELSE
       /\ request' = parsed.value.fields
       /\ lookups' = Append(lookups, parsed.value.fields.LaboratoryId)
       /\ pc' = "lookup"
       /\ UNCHANGED result
  /\ UNCHANGED <<event, laboratory, s3Bucket, s3Prefix, allContents, allCommonPrefixes,
                 isTruncated, continuationToken, calls, pages>>

\* Lines 49-81: the laboratory arrives; authorize, derive bucket and prefix,
\* enter the loop and issue the first listing call.
LookupResolves ==
  /\ UNCHANGED <<treeVars, transformVars, downloadVars, frontEndVars>>
  /\ pc = "lookup"
  /\ \E lab \in queryByLaboratoryId(request.LaboratoryId) :
       /\ laboratory' = lab
       /\ IF ~Authorized(event, lab) THEN
            /\ Return(Catch("UnauthorizedAccessError"))
            /\ UNCHANGED <<s3Bucket, s3Prefix, allContents, allCommonPrefixes,
                           isTruncated, continuationToken, calls>>
          ELSE
            /\ s3Bucket' = EffectiveBucket(request, lab)
            /\ s3Prefix' = EffectivePrefix(request, lab)
            /\ allContents' = InitialAll
            /\ allCommonPrefixes' = InitialAll
            /\ isTruncated' = TRUE
            /\ continuationToken' = Undefined
            /\ calls' = Append(calls, ListRequest(s3Bucket', s3Prefix', request, continuationToken'))
            /\ pc' = "listing"
            /\ UNCHANGED result
  /\ UNCHANGED <<event, request, lookups, pages>>

\* Line 49: the lookup throws (no such laboratory).
LookupRejects ==
  /\ UNCHANGED <<treeVars, transformVars, downloadVars, frontEndVars>>
  /\ pc = "lookup"
  /\ queryByLaboratoryId(request.LaboratoryId) = {}
  /\ Return(Catch("LaboratoryNotFoundError"))
  /\ UNCHANGED <<event, request, laboratory, s3Bucket, s3Prefix, allContents, allCommonPrefixes,
                 isTruncated, continuationToken, lookups, calls, pages>>

\* Lines 75-109: a listing call resolves; aggregate the page, then either
\* issue the next call or return the aggregated listing.
ListResolves(listing, cursor) ==
  /\ UNCHANGED <<treeVars, transformVars, downloadVars, frontEndVars>>
  /\ pc = "listing"
  /\ LET response == Page(listing, cursor, Len(pages) + 1) IN
     /\ pages' = Append(pages, response)
     /\ allContents' = ConcatPage(allContents, response.Contents)
     /\ allCommonPrefixes' = ConcatPage(allCommonPrefixes, response.CommonPrefixes)
     /\ isTruncated' = StillTruncated(response)
     /\ continuationToken' = NextToken(response)
     /\ IF isTruncated' THEN
          /\ calls' = Append(calls, ListRequest(s3Bucket, s3Prefix, request, continuationToken'))
          /\ UNCHANGED <<pc, result>>
        ELSE
          /\ Return(buildResponse(200, ListingBody(event, allContents', allCommonPrefixes')))
          /\ UNCHANGED calls
  /\ UNCHANGED <<event, request, laboratory, s3Bucket, s3Prefix, lookups>>

\* Line 75: a listing call throws.
ListRejects ==
  /\ UNCHANGED <<treeVars, transformVars, downloadVars, frontEndVars>>
  /\ pc = "listing"
  /\ Return(Catch("S3ServiceException"))
  /\ UNCHANGED <<event, request, laboratory, s3Bucket, s3Prefix, allContents, allCommonPrefixes,
                 isTruncated, continuationToken, lookups, calls, pages>>

\* The store serves a further truncated page only while its chain is shorter
\* than MaxPages.
ListResolvesTruncated ==
  /\ Len(calls) < MaxPages
  /\ \E listing \in PageListings, cursor \in TruncatedCursors : ListResolves(listing, cursor)

ListResolvesFinal ==
  /\ Len(pages) < Len(calls)
  /\ \E listing \in PageListings, cursor \in FinalCursors : ListResolves(listing, cursor)

Next ==
  \/ Start
  \/ LookupResolves
  \/ LookupRejects
  \/ ListResolvesTruncated
  \/ ListResolvesFinal
  \/ ListRejects

Spec == Init /\ [][Next]_vars

TypeOK ==
  /\ pc \in {"start", "lookup", "listing", "done"}
  /\ Len(pages) <= Len(calls)
  /\ Len(calls) <= MaxPages

(***************************************************************************)
(* Properties of the listing handler                                       *)
(***************************************************************************)
ReturnedListing == pc = "done" /\ result.statusCode = 200

\* C1: every page that reports IsTruncated = true is followed by a further
\* listing call that carries exactly that page's continuation token, and a
\* 200 response always reports IsTruncated = false.
TruncatedPageIsFollowedUp ==
  /\ \A k \in 1..Len(pages) :
       pages[k].IsTruncated = Bool(TRUE) =>
         /\ k + 1 <= Len(calls)
         /\ calls[k + 1].ContinuationToken = pages[k].NextContinuationToken
  /\ ReturnedListing =>
       /\ result.body.IsTruncated = Bool(FALSE)
       /\ pages[Len(pages)].IsTruncated # Bool(TRUE)

TruncatedPageIsFollowedUpWitness ==
  /\ ReturnedListing
  /\ Len(pages) = 3
  /\ pages[1].NextContinuationToken = Str("token-2")
  /\ pages[2].NextContinuationToken = Str("token-1")
  /\ calls[2].ContinuationToken = Str("token-2")
  /\ calls[3].ContinuationToken = Str("token-1")

RECURSIVE Flatten(_)
Flatten(seqs) == IF Len(seqs) = 0 THEN <<>> ELSE Head(seqs) \o Flatten(Tail(seqs))
RECURSIVE SumLen(_)
SumLen(seqs) == IF Len(seqs) = 0 THEN 0 ELSE Len(Head(seqs)) + SumLen(Tail(seqs))

PageContents == [k \in 1..Len(pages) |-> pages[k].Contents.items]
PageCommonPrefixes == [k \in 1..Len(pages) |-> pages[k].CommonPrefixes.items]
NonEmptyPages(seqs) == {k \in 1..Len(seqs) : Len(seqs[k]) > 0}
Smallest(S) == CHOOSE k \in S : \A j \in S : k <= j
Largest(S) == CHOOSE k \in S : \A j \in S : j <= k

\* seqs concatenated in page order gives all: same length as the pages
\* together, every element at its page's offset, first and last in place.
IsConcatenation(all, seqs) ==
  /\ all = Flatten(seqs)
  /\ Len(all) = SumLen(seqs)
  /\ \A k \in 1..Len(seqs) : \A i \in 1..Len(seqs[k]) :
       all[SumLen(SubSeq(seqs, 1, k - 1)) + i] = seqs[k][i]
  /\ NonEmptyPages(seqs) # {} =>
       /\ all[1] = seqs[Smallest(NonEmptyPages(seqs))][1]
       /\ all[Len(all)] = LET last == seqs[Largest(NonEmptyPages(seqs))] IN last[Len(last)]

\* C2: the Contents and the CommonPrefixes of a 200 response are the pages'
\* sequences concatenated in page-arrival order and within-page order:
\* nothing dropped, deduplicated or reordered.
AggregateIsConcatenation ==
  ReturnedListing =>
    /\ IsConcatenation(result.body.Contents.items, PageContents)
    /\ IsConcatenation(result.body.CommonPrefixes.items, PageCommonPrefixes)

AggregateIsConcatenationWitness ==
  /\ ReturnedListing
  /\ Len(pages) = 3
  /\ result.body.Contents.items = <<Key1, Key2, Key1>>
  /\ result.body.CommonPrefixes.items = <<PrefixA, PrefixB, PrefixA>>

\* C3: for a chain of n pages the adapter is called exactly n times: the
\* first call carries no token, each later call the token of the page
\* before it, and no call follows a page that is not truncated.
CallChainFollowsPages ==
  /\ Len(calls) > 0 => calls[1].ContinuationToken = Undefined
  /\ \A k \in 2..Len(calls) :
       /\ k - 1 <= Len(pages)
       /\ Truthy(pages[k - 1].IsTruncated)
       /\ calls[k].ContinuationToken = pages[k - 1].NextContinuationToken
  /\ \A k \in 1..Len(pages) : ~Truthy(pages[k].IsTruncated) => Len(calls) = k
  /\ ReturnedListing => Len(calls) = Len(pages)

CallChainFollowsPagesWitness ==
  /\ ReturnedListing
  /\ Len(calls) = 3
  /\ Len(pages) = 3
  /\ Truthy(pages[1].IsTruncated)
  /\ Truthy(pages[2].IsTruncated)
  /\ pages[3].IsTruncated = Undefined
  /\ pages[3].NextContinuationToken = Str("token-1")

\* C4: the $metadata of a 200 response (requestId, extendedRequestId) is
\* the first page's, whatever the later pages carry.
MetadataIsFirstPages ==
  ReturnedListing =>
    /\ result.body.metadata.requestId = pages[1].metadata.requestId
    /\ result.body.metadata.extendedRequestId = pages[1].metadata.extendedRequestId

\* The caller's claims hold one of the three capabilities for the laboratory.
HoldsCapability(ev, lab) ==
  \/ lab.OrganizationId.s \in ev.claims.OrganizationAdmin
  \/ <<lab.OrganizationId.s, lab.LaboratoryId.s>> \in ev.claims.LabManager
  \/ <<lab.OrganizationId.s, lab.LaboratoryId.s>> \in ev.claims.LabTechnician

ResolvedWithoutCapability == laboratory # NoLaboratory /\ ~HoldsCapability(event, laboratory)

\* C5: a caller with none of the three capabilities for the resolved
\* laboratory gets 403, and no listing call is issued in that invocation.
UnauthorizedCallerIsRefused ==
  ResolvedWithoutCapability =>
    /\ calls = <<>>
    /\ pages = <<>>
    /\ pc = "done"
    /\ result.statusCode = 403

UnauthorizedCallerIsRefusedWitness ==
  /\ ResolvedWithoutCapability
  /\ laboratory.LaboratoryId = Str("lab-1")
  /\ event.claims.LabManager = {<<"org-1", "lab-2">>}
  /\ result.statusCode = 403

\* What the body parses to, by its wire form.
BodyParses == ParseBody(event).ok
BodyFields == ParseBody(event).value.fields
BodyIsObject == BodyParses /\ ParseBody(event).value.kind = "object"

\* C6: a body without LaboratoryId gets 400 with no laboratory lookup and no
\* listing call; a listing call is only made after a lookup has resolved.
MissingLaboratoryIdIsRejected ==
  /\ (BodyIsObject /\ BodyFields.LaboratoryId = Undefined) =>
       /\ lookups = <<>>
       /\ calls = <<>>
       /\ pc = "done" => result.statusCode = 400
  /\ calls # <<>> => (lookups # <<>> /\ laboratory # NoLaboratory /\ HoldsCapability(event, laboratory))

MissingLaboratoryIdIsRejectedWitness ==
  /\ BodyIsObject
  /\ BodyFields.LaboratoryId = Undefined
  /\ BodyFields.S3Bucket = Str("custom-bucket")
  /\ pc = "done"
  /\ result.statusCode = 400

\* C7: a body that cannot be parsed is answered 400 like a schema failure.
UnparsableBodyIs400 ==
  (pc = "done" /\ ~BodyParses) => result.statusCode = 400

\* A field of the schema holds a value of the wrong type.
WrongType(fields) ==
  \/ fields.LaboratoryId.t \notin {"string", "undefined"}
  \/ fields.S3Bucket.t \notin {"string", "undefined"}
  \/ fields.S3Prefix.t \notin {"string", "undefined"}
  \/ fields.MaxKeys.t \notin {"number", "undefined"}

\* C8: the schema is closed: an object with a key outside the schema, or a
\* schema key of the wrong type, gets 400 with no lookup and no listing call,
\* also when LaboratoryId is present and valid.
ClosedSchemaIsEnforced ==
  (BodyIsObject /\ (BodyFields.Extra # Undefined \/ WrongType(BodyFields))) =>
    /\ lookups = <<>>
    /\ calls = <<>>
    /\ pc = "done" => result.statusCode = 400

ClosedSchemaIsEnforcedWitness ==
  /\ BodyIsObject
  /\ BodyFields.LaboratoryId = Str("lab-1")
  /\ BodyFields.Extra = Str("x")
  /\ ~WrongType(BodyFields)
  /\ event.isBase64Encoded
  /\ pc = "done"
  /\ result.statusCode = 400

DefinedPages(arrays) == {k \in 1..Len(arrays) : arrays[k].defined}
RECURSIVE SumOver(_, _)
SumOver(S, f) == IF S = {} THEN 0 ELSE LET k == CHOOSE k \in S : TRUE IN f[k] + SumOver(S \ {k}, f)
\* The number of elements the pages that carry the array hold together.
DefinedTotal(arrays) == SumOver(DefinedPages(arrays), [k \in 1..Len(arrays) |-> Len(arrays[k].items)])

\* C9: a page without Contents (or CommonPrefixes) adds nothing and makes no
\* failure: once every call has resolved the answer is 200, and its Contents
\* and CommonPrefixes are arrays, empty when no page had any.
AbsentArraysAreEmpty ==
  /\ (pc = "done" /\ calls # <<>> /\ Len(pages) = Len(calls)) => result.statusCode = 200
  /\ ReturnedListing =>
       /\ result.body.Contents.defined
       /\ result.body.CommonPrefixes.defined
       /\ Len(result.body.Contents.items) = DefinedTotal([k \in 1..Len(pages) |-> pages[k].Contents])
       /\ Len(result.body.CommonPrefixes.items) =
            DefinedTotal([k \in 1..Len(pages) |-> pages[k].CommonPrefixes])

AbsentArraysAreEmptyWitness ==
  /\ ReturnedListing
  /\ Len(pages) = 2
  /\ \A k \in 1..2 : ~pages[k].Contents.defined /\ ~pages[k].CommonPrefixes.defined
  /\ result.body.Contents = Arr(<<>>)
  /\ result.body.CommonPrefixes = Arr(<<>>)

Supplied(v) == v # Undefined
SuppliedNonEmpty(v) == v.t = "string" /\ v.s # ""
LaboratoryPrefix(lab) == Str(lab.OrganizationId.s \o "/" \o lab.LaboratoryId.s \o "/")

\* C10 as stated: every listing call uses the request's bucket if supplied,
\* else the laboratory's bucket, else "", and the request's prefix if
\* supplied, else "{organizationId}/{laboratoryId}/".
SuppliedBucketAndPrefixAreUsed ==
  \A k \in 1..Len(calls) :
    /\ calls[k].Bucket =
         IF Supplied(request.S3Bucket) THEN request.S3Bucket
         ELSE IF Supplied(laboratory.S3Bucket) THEN laboratory.S3Bucket
         ELSE Str("")
    /\ calls[k].Prefix =
         IF Supplied(request.S3Prefix) THEN request.S3Prefix ELSE LaboratoryPrefix(laboratory)

\* C10 amended: as stated, with a supplied empty string counting as not
\* supplied; a supplied non-empty bucket or prefix is used verbatim.
NonEmptyBucketAndPrefixAreUsed ==
  \A k \in 1..Len(calls) :
    /\ calls[k].Bucket =
         IF SuppliedNonEmpty(request.S3Bucket) THEN request.S3Bucket
         ELSE IF SuppliedNonEmpty(laboratory.S3Bucket) THEN laboratory.S3Bucket
         ELSE Str("")
    /\ calls[k].Prefix =
         IF SuppliedNonEmpty(request.S3Prefix) THEN request.S3Prefix ELSE LaboratoryPrefix(laboratory)

NonEmptyBucketAndPrefixAreUsedWitness ==
  /\ Len(calls) = 2
  /\ request.S3Bucket = Str("custom-bucket")
  /\ request.S3Prefix = Str("")
  /\ laboratory.S3Bucket = Str("lab-bucket")
  /\ calls[2].Bucket = Str("custom-bucket")
  /\ calls[2].Prefix = Str("org-1/lab-1/")

\* The failures that are neither InvalidRequest nor Unauthorized: the
\* laboratory lookup throws, a listing call throws.
LookupFailed == pc = "done" /\ lookups # <<>> /\ laboratory = NoLaboratory
ListingFailed == pc = "done" /\ Len(pages) < Len(calls)
GenericError == [Error |-> "Error", Message |-> "Internal server error"]

\* C11: a failure that is neither InvalidRequest nor Unauthorized (lookup
\* failing, a listing call failing on any page) is answered 500 with the
\* generic message; pages aggregated before the failure are not returned.
OtherFailuresAreGeneric500 ==
  /\ (LookupFailed \/ ListingFailed) =>
       /\ result.statusCode = 500
       /\ result.body = GenericError
  /\ ReturnedListing => Len(pages) = Len(calls)

OtherFailuresAreGeneric500Witness ==
  /\ ListingFailed
  /\ Len(calls) = 3
  /\ Len(pages) = 2
  /\ allContents = Arr(<<Key1, Key2, Key1>>)
  /\ result.statusCode = 500

\* C12: a caller holding at least one of the three capabilities for the
\* resolved laboratory is authorized (never 403, the first listing call is
\* issued), and gets 200 once every listing call has resolved.
CapableCallerIsServed ==
  (laboratory # NoLaboratory /\ HoldsCapability(event, laboratory)) =>
    /\ calls # <<>>
    /\ result.statusCode # 403
    /\ (pc = "done" /\ Len(pages) = Len(calls)) => result.statusCode = 200

CapableCallerIsServedWitness ==
  /\ ReturnedListing
  /\ event.claims = Claims({}, {}, {<<"org-1", "lab-1">>})
  /\ laboratory.LaboratoryId = Str("lab-1")
  /\ Len(pages) = 2

\* C13: in one invocation the listing calls differ in the continuation token
\* only: same bucket, prefix and page size, delimiter "/", the page size being
\* request.MaxKeys when supplied and non-zero and 1000 otherwise.
OnlyTheTokenChanges ==
  \A k \in 1..Len(calls) :
    /\ calls[k].Bucket = calls[1].Bucket
    /\ calls[k].Prefix = calls[1].Prefix
    /\ calls[k].Delimiter = "/"
    /\ calls[k].MaxKeys =
         IF request.MaxKeys.t = "number" /\ request.MaxKeys.n # 0 THEN request.MaxKeys ELSE Num(1000)

OnlyTheTokenChangesWitness ==
  /\ Len(calls) = 3
  /\ request.MaxKeys = Num(2)
  /\ calls[1].MaxKeys = Num(2)
  /\ calls[3].MaxKeys = Num(2)
  /\ calls[2].ContinuationToken = Str("token-1")
  /\ calls[3].ContinuationToken = Str("token-2")

\* Every listing call is answered (it resolves or throws), as is the
\* laboratory lookup: the handler takes its next step whenever it has one.
FairSpec == Spec /\ WF_vars(Next)

\* While the loop runs, every page so far was truncated and one call is
\* awaited; a 200 response comes after exactly as many calls as pages, the
\* last page being the first that is not truncated; any other return after a
\* listing call is an error thrown by the call that was awaited.
LoopExitsAtTheFinalPage ==
  /\ pc = "listing" =>
       /\ Len(calls) = Len(pages) + 1
       /\ \A k \in 1..Len(pages) : pages[k].IsTruncated = Bool(TRUE)
  /\ ReturnedListing =>
       /\ Len(calls) = Len(pages)
       /\ Len(pages) >= 1
       /\ pages[Len(pages)].IsTruncated # Bool(TRUE)
       /\ \A k \in 1..(Len(pages) - 1) : pages[k].IsTruncated = Bool(TRUE)
  /\ (pc = "done" /\ ~ReturnedListing /\ Len(calls) > 0) =>
       /\ Len(calls) = Len(pages) + 1
       /\ \A k \in 1..Len(pages) : pages[k].IsTruncated = Bool(TRUE)

\* C29: the pagination loop ends: the handler returns, and when it returns
\* a listing it does so after exactly n calls, n being the first page that
\* is not truncated; a truncated page, with or without a continuation
\* token, is always followed by a further call, however many came before.
PaginationTerminates == []LoopExitsAtTheFinalPage /\ <>(pc = "done")

\* Returned after three calls, the second page truncated without a token.
PaginationTerminatesWitness ==
  /\ ReturnedListing
  /\ Len(calls) = 3
  /\ pages[2].IsTruncated = Bool(TRUE)
  /\ pages[2].NextContinuationToken = Undefined
  /\ calls[3].ContinuationToken = Undefined

(***************************************************************************)
(* File tree: the functions of the component                               *)
(***************************************************************************)
MaxFetches == 4
MaxPrefixChanges == 1
MaxFailures == 1

\* The mutable state of the component as one value; the functions below
\* take it and give the state they leave.
TreeState ==
  [currentPath |-> currentPath, rootCount |-> rootCount, nodeChildren |-> nodeChildren,
   nodeLoading |-> nodeLoading, loadedDirectories |-> loadedDirectories, fetches |-> fetches,
   cleared |-> cleared, isRootLoading |-> isRootLoading, hasOpenedStartPath |-> hasOpenedStartPath,
   toasts |-> toasts]

\* The nodes of array a: array n > 0 is transformS3Response of the answer to fetch n.
ArrayItems(st, a) ==
  IF a = 0 THEN <<>> ELSE transformS3Response(StoreListing(st.fetches[a].prefix))
\* node.children (array 0 when none was assigned)
Children(st, node) == IF node \in DOMAIN st.nodeChildren THEN st.nodeChildren[node] ELSE 0
NodeInfo(st, node) == IF node[1] = 0 THEN RootInfo ELSE ArrayItems(st, node[1])[node[2]]
Leaf(st) == st.currentPath[Len(st.currentPath)]
SetChildren(st, node, a) == [st EXCEPT !.nodeChildren = (node :> a) @@ @]
RootPath == WithSlash(treeS3Prefix)

\* $api.file.requestTopLevelBucketObjects(...): the call goes out, its answer comes later.
\* kind tells what waits for it: "prefetch", "root" (initializeRoot) or "open"
\* (openDirectory of dir; step > 0 when the startPath loop awaits that call).
requestTopLevelBucketObjects(st, prefix, kind, dir, step) ==
  [st EXCEPT !.fetches = Append(@,
     [LaboratoryId |-> TreeLabId, S3Bucket |-> TreeBucket, prefix |-> prefix, status |-> "pending",
      kind |-> kind, dir |-> dir, step |-> step, epoch |-> st.cleared])]

RECURSIVE prefetchFrom(_, _, _, _)
prefetchFrom(st, items, i, prefixPath) ==
  IF i > Len(items) THEN st
  ELSE IF items[i].type = "directory"
          /\ CacheKey(TreeBucket, ChildPrefix(prefixPath, items[i].name)) \notin DOMAIN st.loadedDirectories
    THEN prefetchFrom(requestTopLevelBucketObjects(st, ChildPrefix(prefixPath, items[i].name),
                                                   "prefetch", NoNode, 0),
                      items, i + 1, prefixPath)
  ELSE prefetchFrom(st, items, i + 1, prefixPath)

prefetchNextLevelFirstOnly(st, children, prefixPath) ==
  LET items == ArrayItems(st, children)
      dirs == {i \in 1..Len(items) : items[i].type = "directory"}
  IN IF dirs = {} THEN st
     ELSE prefetchFrom(st, SubSeq(items, 1, CHOOSE i \in dirs : \A j \in dirs : i <= j), 1, prefixPath)
prefetchNextLevel(st, children, prefixPath) == prefetchFrom(st, ArrayItems(st, children), 1, prefixPath)

\* loadDirectoryChildren(prefixPath) up to its return (the cached children) or its await
CacheHitIgnored(st, prefixPath) == FALSE
CacheHit(st, prefixPath) == CacheKey(TreeBucket, prefixPath) \in DOMAIN st.loadedDirectories
Cached(st, prefixPath) == st.loadedDirectories[CacheKey(TreeBucket, prefixPath)]
loadDirectoryChildren(st, prefixPath, kind, dir, step) ==
  IF CacheHit(st, prefixPath) THEN st
  ELSE requestTopLevelBucketObjects(st, prefixPath, kind, dir, step)

\* loadDirectoryChildren once call n is answered: array n is stored and returned
LoadResolved(st, n) ==
  LET f == st.fetches[n]
  IN prefetchNextLevel([st EXCEPT !.loadedDirectories = (CacheKey(f.S3Bucket, f.prefix) :> n) @@ @],
                       n, f.prefix)
\* loadDirectoryChildren once call n failed: [] is returned
LoadRejectedCaching(st, n) ==
  [st EXCEPT !.toasts = @ + 1,
             !.loadedDirectories = (CacheKey(st.fetches[n].S3Bucket, st.fetches[n].prefix) :> n) @@ @]
LoadRejected(st, n) == [st EXCEPT !.toasts = @ + 1]
\* the .then and the .catch of a pre-fetch
PrefetchResolvedUnlessCached(st, n) ==
  LET f == st.fetches[n]
  IN [st EXCEPT !.loadedDirectories = @ @@ (CacheKey(f.S3Bucket, f.prefix) :> n)]
PrefetchResolvedPrefetching(st, n) == LoadResolved(st, n)
PrefetchResolved(st, n) ==
  LET f == st.fetches[n]
  IN [st EXCEPT !.loadedDirectories = (CacheKey(f.S3Bucket, f.prefix) :> n) @@ @]
PrefetchRejectedNotifying(st, n) == [st EXCEPT !.toasts = @ + 1]
PrefetchRejected(st, n) == st

\* currentPath.value.slice(1).map((node) => node.name).concat([dir.name])
PathSegments(st, dir) ==
  [k \in 1..(Len(st.currentPath) - 1) |-> NodeInfo(st, st.currentPath[k + 1]).name]
  \o <<NodeInfo(st, dir).name>>
FullPrefix(st, dir) == StrCat(StrCat(RootPath, Join(PathSegments(st, dir))), Slash)

\* currentPath.value.push(dir)
Push(st, dir) == [st EXCEPT !.currentPath = Append(@, dir)]

\* dir.type === 'directory' && (!dir.children || dir.children.length === 0)
NeedsChildren(st, dir) ==
  NodeInfo(st, dir).type = "directory" /\ Len(ArrayItems(st, Children(st, dir))) = 0
\* openDirectory has to wait for the network
OpenAwaits(st, dir) ==
  /\ Leaf(st) # dir
  /\ NeedsChildren(st, dir)
  /\ ~CacheHit(st, FullPrefix(st, dir))

\* openDirectory(dir) up to its return or its await
openDirectory(st, dir, step) ==
  IF Leaf(st) = dir THEN st
  ELSE IF NeedsChildren(st, dir)
    THEN LET fullPrefix == FullPrefix(st, dir)
         IN IF CacheHit(st, fullPrefix)
              THEN LET children == Cached(st, fullPrefix)
                   IN Push(prefetchNextLevel(SetChildren(st, dir, children), children, fullPrefix), dir)
              ELSE loadDirectoryChildren([st EXCEPT !.nodeLoading = @ \cup {dir}],
                                         fullPrefix, "open", dir, step)
  ELSE Push(st, dir)

\* The loop over props.startPath from its k-th step, up to its end or its await.
RECURSIVE StartPathLoop(_, _)
StartPathLoop(st, k) ==
  IF k > Len(startPath) THEN st
  ELSE LET children == Children(st, Leaf(st))
           items == ArrayItems(st, children)
           found == {i \in 1..Len(items) : items[i].type = "directory" /\ items[i].name = startPath[k]}
       IN IF found = {} THEN st
          ELSE LET targetDir == <<children, CHOOSE i \in found : \A j \in found : i <= j, 0>>
               IN IF OpenAwaits(st, targetDir) THEN openDirectory(st, targetDir, k)
                  ELSE StartPathLoop(openDirectory(st, targetDir, k), k + 1)

\* Variant: the watcher does not look at hasOpenedStartPath.
ChildrenWatcherForgetful(st) ==
  IF Len(startPath) = 0 THEN st
  ELSE IF Len(st.currentPath) > 1 THEN [st EXCEPT !.hasOpenedStartPath = TRUE]
  ELSE StartPathLoop([st EXCEPT !.hasOpenedStartPath = TRUE], 1)
\* The watcher of currentPath.value[0].children
ChildrenWatcher(st) ==
  IF st.hasOpenedStartPath THEN st
  ELSE IF Len(startPath) = 0 THEN st
  ELSE IF Len(st.currentPath) > 1 THEN [st EXCEPT !.hasOpenedStartPath = TRUE]
  ELSE StartPathLoop([st EXCEPT !.hasOpenedStartPath = TRUE], 1)

\* initializeRoot after loadDirectoryChildren gave it children
RootLoaded(st, children) ==
  ChildrenWatcher([SetChildren(st, st.currentPath[1], children) EXCEPT !.isRootLoading = FALSE])

\* initializeRoot up to its await
initializeRoot(st) ==
  LET st1 == [st EXCEPT !.isRootLoading = TRUE]
      st2 == loadDirectoryChildren(st1, RootPath, "root", NoNode, 0)
  IN IF CacheHit(st1, RootPath) THEN RootLoaded(st2, Cached(st1, RootPath)) ELSE st2

\* openDirectory after loadDirectoryChildren gave it children
OpenLoadedUnlessFailed(st, f, children) ==
  LET st0 == [SetChildren(st, f.dir, children) EXCEPT !.nodeLoading = @ \ {f.dir}]
      st1 == IF children = 0 THEN st0 ELSE Push(st0, f.dir)
  IN IF f.step > 0 THEN StartPathLoop(st1, f.step + 1) ELSE st1
OpenLoaded(st, f, children) ==
  LET st1 == Push([SetChildren(st, f.dir, children) EXCEPT !.nodeLoading = @ \ {f.dir}], f.dir)
  IN IF f.step > 0 THEN StartPathLoop(st1, f.step + 1) ELSE st1

\* What runs when call n is answered.
Answered(st, n) ==
  LET f == st.fetches[n]
      st1 == [st EXCEPT !.fetches[n].status = "ok"]
  IN IF f.kind = "prefetch" THEN PrefetchResolved(st1, n)
     ELSE IF f.kind = "root" THEN RootLoaded(LoadResolved(st1, n), n)
     ELSE OpenLoaded(LoadResolved(st1, n), f, n)

\* What runs when call n fails.
FailedUnnotified(st, n) ==
  LET f == st.fetches[n]
      st1 == [st EXCEPT !.fetches[n].status = "failed"]
  IN IF f.kind = "prefetch" THEN PrefetchRejected(st1, n)
     ELSE IF f.kind = "root" THEN RootLoaded(st1, 0)
     ELSE OpenLoaded(st1, f, 0)
Failed(st, n) ==
  LET f == st.fetches[n]
      st1 == [st EXCEPT !.fetches[n].status = "failed"]
  IN IF f.kind = "prefetch" THEN PrefetchRejected(st1, n)
     ELSE IF f.kind = "root" THEN RootLoaded(LoadRejected(st1, n), 0)
     ELSE OpenLoaded(LoadRejected(st1, n), f, 0)

(***************************************************************************)
(* File tree: the steps of the component                                   *)
(***************************************************************************)
\* The row objects still referred to: in the path, awaited by an
\* openDirectory, or held by the debounce timer.
Live(st, held) ==
  {st.currentPath[k] : k \in 1..Len(st.currentPath)}
  \cup {st.fetches[n].dir : n \in {m \in 1..Len(st.fetches) : st.fetches[m].status = "pending"}}
  \cup {held}

\* What currentItems reads: the path, and the fields of the nodes themselves.
View(st) ==
  <<st.currentPath, Children(st, Leaf(st)),
    {node \in DOMAIN st.nodeChildren : node[3] = 0}, {node \in st.nodeLoading : node[3] = 0}>>

\* The row object { ...node } of row i of the open directory, c-th of its kind.
RowObject(st, i, c) == <<Children(st, Leaf(st)), i, c>>
\* currentItems runs again: the row objects it makes are new ones.
NewRows(st, held) ==
  LET used(c) == \E node \in Live(st, held) : node[1] = Children(st, Leaf(st)) /\ node[3] = c
  IN CHOOSE c \in 1..(MaxFetches + 3) : ~used(c) /\ \A b \in 1..(c - 1) : used(b)

\* The step ends in state st, with `held` by the debounce timer.
Commit(st, held) ==
  LET live == Live(st, held)
      kept == {node \in DOMAIN st.nodeChildren :
                 IF node[1] = 0 THEN node = st.currentPath[1] ELSE node[3] = 0 \/ node \in live}
  IN /\ Len(st.fetches) <= MaxFetches
     /\ currentPath' = st.currentPath
     /\ rootCount' = st.rootCount
     /\ nodeChildren' = [node \in kept |-> st.nodeChildren[node]]
     /\ nodeLoading' = {node \in st.nodeLoading : node[3] = 0 \/ node \in live}
     /\ loadedDirectories' = st.loadedDirectories
     /\ fetches' = st.fetches
     /\ cleared' = st.cleared
     /\ isRootLoading' = st.isRootLoading
     /\ hasOpenedStartPath' = st.hasOpenedStartPath
     /\ toasts' = st.toasts
     /\ rendered' = IF View(st) = View(TreeState) THEN rendered ELSE NewRows(st, held)
     /\ debounced' = held
     /\ UNCHANGED <<treeS3Prefix, startPath, handlerVars, transformVars, downloadVars, frontEndVars>>

TreeInit ==
  /\ \E setup \in Setups : TreeSetup(setup[1], setup[2])
  /\ TransformSetup(TopLevelResponse(NoArr, NoArr))
  /\ DownloadSetup(<<"s3:", "", TreeBucket>>)
  /\ FrontEndSetup("rejects", "rejects", Undefined)
  /\ HandlerSetup(Event(Body("plain", Malformed), FALSE, Claims({"org-1"}, {}, {})))

\* onMounted
Mount ==
  /\ ~mounted
  /\ mounted' = TRUE
  /\ UNCHANGED propsS3Prefix
  /\ Commit(initializeRoot(TreeState), debounced)

\* The parent passes another s3Prefix: the watcher of props.s3Prefix runs, and
\* after it the watcher of the root's children, since the root is a new one.
PrefixChanges(prefix) ==
  /\ cleared < MaxPrefixChanges
  /\ prefix # propsS3Prefix
  /\ propsS3Prefix' = prefix
  /\ LET st == TreeState
         reset == [st EXCEPT !.currentPath = <<RootNode(st.rootCount + 1)>>,
                             !.rootCount = @ + 1,
                             !.loadedDirectories = <<>>,
                             !.cleared = @ + 1]
     IN Commit(ChildrenWatcher(initializeRoot(reset)), debounced)
  /\ UNCHANGED mounted

\* A click on row i of the table: onRowClicked gets the row object that
\* currentItems made, and the debounce timer holds it.
ClickRow(i) ==
  /\ LET st == TreeState
         node == RowObject(st, i, 0)
         item == RowObject(st, i, rendered)
         copied == [st EXCEPT !.nodeChildren = IF node \in DOMAIN @ THEN (item :> @[node]) @@ @ ELSE @,
                              !.nodeLoading = IF node \in @ THEN @ \cup {item} ELSE @]
     IN Commit(IF item \in Live(st, debounced) THEN st ELSE copied, item)
  /\ UNCHANGED <<mounted, propsS3Prefix>>

\* The debounce timer runs out: onRowClicked's function gets the held row.
DebounceFires ==
  /\ debounced # NoNode
  /\ LET st == TreeState
     IN Commit(IF NodeInfo(st, debounced).type = "directory" THEN openDirectory(st, debounced, 0) ELSE st,
               NoNode)
  /\ UNCHANGED <<mounted, propsS3Prefix>>

\* Variant: below the root the slice ends before the node clicked.
navigateToParent(index) ==
  /\ LET st == TreeState
     IN Commit(IF index >= 0 /\ index < Len(st.currentPath)
                 THEN [st EXCEPT !.currentPath = SubSeq(@, 1, IF index = 0 THEN 1 ELSE index)] ELSE st,
               debounced)
  /\ UNCHANGED <<mounted, propsS3Prefix>>
\* A click on a breadcrumb
navigateTo(index) ==
  /\ LET st == TreeState
     IN Commit(IF index >= 0 /\ index < Len(st.currentPath)
                 THEN [st EXCEPT !.currentPath = SubSeq(@, 1, index + 1)] ELSE st,
               debounced)
  /\ UNCHANGED <<mounted, propsS3Prefix>>

\* The answer to call n arrives.
FetchSucceeds(n) ==
  /\ fetches[n].status = "pending"
  /\ Commit(Answered(TreeState, n), debounced)
  /\ UNCHANGED <<mounted, propsS3Prefix>>

\* Call n fails.
FetchFails(n) ==
  /\ fetches[n].status = "pending"
  /\ Cardinality({m \in 1..Len(fetches) : fetches[m].status = "failed"}) < MaxFailures
  /\ Commit(Failed(TreeState, n), debounced)
  /\ UNCHANGED <<mounted, propsS3Prefix>>

\* The user and the network: any row, any breadcrumb, any call in flight.
PropsChange ==
  /\ mounted
  /\ \E prefix \in RootPrefixes : PrefixChanges(prefix)
Click ==
  /\ mounted
  /\ \E i \in 1..Len(ArrayItems(TreeState, Children(TreeState, Leaf(TreeState)))) : ClickRow(i)
Navigate ==
  /\ mounted
  /\ \E index \in -1..Len(currentPath) : navigateTo(index)
Answer ==
  /\ mounted
  /\ \E n \in 1..Len(fetches) : FetchSucceeds(n)
Failure ==
  /\ mounted
  /\ \E n \in 1..Len(fetches) : FetchFails(n)

TreeNext ==
  \/ Mount
  \/ PropsChange
  \/ Click
  \/ DebounceFires
  \/ Navigate
  \/ Answer
  \/ Failure

TreeSpec == TreeInit /\ [][TreeNext]_vars

TreeTypeOK ==
  /\ mounted \in BOOLEAN
  /\ Len(currentPath) >= 1
  /\ Len(fetches) <= MaxFetches
  /\ cleared <= MaxPrefixChanges
  /\ \A n \in 1..Len(fetches) : fetches[n].status \in {"pending", "ok", "failed"}

(***************************************************************************)
(* File tree: properties                                                   *)
(***************************************************************************)
FetchKey(f) == CacheKey(f.S3Bucket, f.prefix)
Issued(n) == n \in 1..Len(fetches)
\* The calls that go out in a step
NewCalls == (Len(fetches) + 1)..Len(fetches')
InPath(node) == \E k \in 1..Len(currentPath) : currentPath[k] = node

\* C14 as stated: between two changes of the root prefix, no (bucket, prefix)
\* is asked of the network twice.
AtMostOneCallPerPrefix ==
  \A m, n \in 1..Len(fetches) :
    (m # n /\ FetchKey(fetches[m]) = FetchKey(fetches[n])) => fetches[m].epoch # fetches[n].epoch

\* C14: once a fetch of (bucket, prefix) has been stored in the cache, no call
\* for that (bucket, prefix) goes out until the root prefix changes: loads of
\* it are served from the cache.
CachedPrefixIsNotFetchedAgain ==
  [][cleared' = cleared =>
       \A n \in NewCalls : FetchKey(fetches'[n]) \notin DOMAIN loadedDirectories]_vars

\* A directory was opened with the children a pre-fetch had stored, and the
\* network was asked for them once.
CachedPrefixIsNotFetchedAgainWitness ==
  \E k \in 1..Len(currentPath) :
    /\ currentPath[k] \in DOMAIN nodeChildren
    /\ LET n == nodeChildren[currentPath[k]]
       IN /\ n > 0
          /\ fetches[n].kind = "prefetch"
          /\ \A m \in 1..Len(fetches) : FetchKey(fetches[m]) = FetchKey(fetches[n]) => m = n

\* Call n changes from pending to the given status in this step.
Becomes(n, status) == fetches[n].status = "pending" /\ fetches'[n].status = status
FailedPrefetchOf(prefix) ==
  \E m \in 1..Len(fetches) :
    fetches[m].kind = "prefetch" /\ fetches[m].status = "failed" /\ fetches[m].prefix = prefix
\* The debounce timer hands the held directory to openDirectory in this step.
Opens(dir) ==
  /\ debounced = dir
  /\ dir # NoNode
  /\ debounced' = NoNode
  /\ NodeInfo(TreeState, dir).type = "directory"

PrefetchFailureIsSilent ==
  \A n \in 1..Len(fetches) :
    (fetches[n].kind = "prefetch" /\ Becomes(n, "failed")) =>
      /\ UNCHANGED <<currentPath, nodeChildren, nodeLoading, loadedDirectories, toasts,
                     isRootLoading, hasOpenedStartPath>>
      /\ Len(fetches') = Len(fetches)
      /\ \A m \in 1..Len(fetches) : m # n => fetches'[m] = fetches[m]

FailedPrefetchIsRetried ==
  \A dir \in {debounced} :
    (/\ Opens(dir)
     /\ dir # Leaf(TreeState)
     /\ Len(ArrayItems(TreeState, Children(TreeState, dir))) = 0
     /\ FailedPrefetchOf(FullPrefix(TreeState, dir))
     /\ CacheKey(TreeBucket, FullPrefix(TreeState, dir)) \notin DOMAIN loadedDirectories) =>
      /\ Len(fetches') = Len(fetches) + 1
      /\ fetches'[Len(fetches')].kind = "open"
      /\ fetches'[Len(fetches')].dir = dir
      /\ fetches'[Len(fetches')].prefix = FullPrefix(TreeState, dir)
      /\ fetches'[Len(fetches')].status = "pending"
      /\ dir \in nodeLoading'
      /\ UNCHANGED <<currentPath, toasts, loadedDirectories>>

RetriedDirectoryIsLoaded ==
  \A n \in 1..Len(fetches) :
    (fetches[n].kind = "open" /\ Becomes(n, "ok")) =>
      /\ fetches[n].dir \in DOMAIN nodeChildren'
      /\ ArrayItems([fetches |-> fetches'], nodeChildren'[fetches[n].dir])
           = transformS3Response(StoreListing(fetches[n].prefix))
      /\ fetches[n].dir \notin nodeLoading'
      /\ toasts' = toasts

\* C15: a pre-fetch that fails changes nothing but the state of that call (no
\* cache entry, no notification, the path and the nodes as they were); when
\* the directory is then opened and is still not cached, openDirectory marks
\* it loading and sends a fresh call, and when that call is answered the
\* directory has the children the listing of its prefix gives.
PrefetchFailureIsNotObservable ==
  [][PrefetchFailureIsSilent /\ FailedPrefetchIsRetried /\ RetriedDirectoryIsLoaded]_vars

\* A pre-fetch of a directory failed, the directory was opened and loaded by a
\* call of its own, and no notification was raised.
PrefetchFailureIsNotObservableWitness ==
  \E m, n \in 1..Len(fetches) :
    /\ m < n
    /\ fetches[m].kind = "prefetch" /\ fetches[m].status = "failed"
    /\ fetches[n].kind = "open" /\ fetches[n].status = "ok"
    /\ startPath = <<>>
    /\ fetches[n].prefix = fetches[m].prefix
    /\ InPath(fetches[n].dir)
    /\ fetches[n].dir \in DOMAIN nodeChildren
    /\ nodeChildren[fetches[n].dir] = n
    /\ FetchKey(fetches[n]) \in DOMAIN loadedDirectories
    /\ toasts = 0

\* The call openDirectory(dir) awaits goes out in this step.
Awaited(dir) == \E n \in NewCalls : fetches'[n].kind = "open" /\ fetches'[n].dir = dir

OpenDirectoryCalled ==
  \A dir \in {debounced} :
    Opens(dir) =>
      IF dir = Leaf(TreeState)
        THEN UNCHANGED <<currentPath, fetches, nodeChildren, nodeLoading, loadedDirectories, toasts>>
      ELSE IF Awaited(dir) THEN UNCHANGED currentPath
      ELSE currentPath' = Append(currentPath, dir)

OpenDirectoryResumed ==
  \A n \in 1..Len(fetches) :
    (fetches[n].kind = "open" /\ (Becomes(n, "ok") \/ Becomes(n, "failed"))) =>
      /\ Len(currentPath') > Len(currentPath)
      /\ SubSeq(currentPath', 1, Len(currentPath) + 1) = Append(currentPath, fetches[n].dir)
      /\ fetches[n].step = 0 => Len(currentPath') = Len(currentPath) + 1

\* C16: openDirectory(node) changes nothing when node is the last node of the
\* path; otherwise it appends node to the path, at once when the children
\* are there or come from the cache, and when its call is answered or fails
\* when it had to fetch them.
OpenDirectoryAppends == [][OpenDirectoryCalled /\ OpenDirectoryResumed]_vars

\* The fetch of an opened directory failed and the directory is the last node of the path.
OpenDirectoryAppendsWitness ==
  \E n \in 1..Len(fetches) :
    /\ fetches[n].kind = "open"
    /\ fetches[n].status = "failed"
    /\ Len(currentPath) > 1
    /\ currentPath[Len(currentPath)] = fetches[n].dir
    /\ Children(TreeState, fetches[n].dir) = 0

\* The root prefix changes in this step.
RootPrefixChanged == cleared' = cleared + 1
\* Call n loads the children of the present root.
Reload(n) == fetches[n].kind = "root" /\ fetches[n].epoch = cleared

PathAndCacheAreReset ==
  RootPrefixChanged =>
    /\ currentPath' = <<RootNode(rootCount')>>
    /\ rootCount' = rootCount + 1
    /\ \A n \in 1..Len(fetches') : FetchKey(fetches'[n]) \in DOMAIN loadedDirectories' => n \in NewCalls
    /\ \E n \in NewCalls : fetches'[n].kind = "root" /\ fetches'[n].status = "pending"

ReloadCompletesAtRoot ==
  \A n \in 1..Len(fetches) :
    (Reload(n) /\ Becomes(n, "ok")) =>
      /\ currentPath' = <<RootNode(rootCount)>>
      /\ currentPath'[1] \in DOMAIN nodeChildren'
      /\ nodeChildren'[currentPath'[1]] = n

\* C17: when the root prefix changes the path becomes the one new root node
\* and the cache is emptied before the call for the root's children goes out,
\* and when that call (or the one sent on mount) is answered the path is the
\* root alone, with the children just loaded.
ReloadLeavesRootAlone == [][PathAndCacheAreReset /\ ReloadCompletesAtRoot]_vars

\* The children of the present root have been assigned by initializeRoot.
RootChildrenArrived == currentPath[1] \in DOMAIN nodeChildren
\* The startPath loop awaits call n.
WalkAwaits(n) == fetches[n].step > 0 /\ fetches[n].status = "pending"
\* The directories among the children of node that bear the name
NamedIn(st, node, name) ==
  {i \in 1..Len(ArrayItems(st, Children(st, node))) :
     /\ ArrayItems(st, Children(st, node))[i].type = "directory"
     /\ ArrayItems(st, Children(st, node))[i].name = name}

WalkStartsAfterRootArrives ==
  (~hasOpenedStartPath /\ hasOpenedStartPath') => RootChildrenArrived'

WalkIsSequential ==
  \A n \in NewCalls :
    fetches'[n].step > 0 =>
      /\ \A m \in 1..Len(fetches') : (m # n /\ fetches'[m].step > 0) => fetches'[m].status # "pending"
      /\ \/ fetches'[n].step = 1
         \/ \E m \in 1..Len(fetches) :
              /\ fetches[m].step = fetches'[n].step - 1
              /\ Becomes(m, "ok") \/ Becomes(m, "failed")

WalkStopsAtMismatch ==
  \A n \in 1..Len(fetches) :
    (/\ WalkAwaits(n)
     /\ Becomes(n, "ok") \/ Becomes(n, "failed")
     /\ \/ fetches[n].step = Len(startPath)
        \/ NamedIn([fetches |-> fetches', nodeChildren |-> nodeChildren'], fetches[n].dir,
                   startPath[fetches[n].step + 1]) = {}) =>
      /\ currentPath' = Append(currentPath, fetches[n].dir)
      /\ \A m \in NewCalls : fetches'[m].step = 0

\* C18: the loop over startPath starts only once the children of the root
\* have arrived; it opens one segment at a time, the next only when the
\* openDirectory of the one before has returned; and it stops at the first
\* segment that names no directory among the children of the directory it
\* is in, the path ending at the last segment it found.
DeepLinkWalksAfterRootArrives ==
  [][WalkStartsAfterRootArrives /\ WalkIsSequential /\ WalkStopsAtMismatch]_vars

CachedKeys == DOMAIN loadedDirectories
EntriesComeFromAnswers ==
  \A key \in CachedKeys :
    /\ Issued(loadedDirectories[key])
    /\ fetches[loadedDirectories[key]].status = "ok"
    /\ FetchKey(fetches[loadedDirectories[key]]) = key

EntriesAreKept ==
  /\ ~RootPrefixChanged => CachedKeys \subseteq CachedKeys'
  /\ \A key \in CachedKeys' \ CachedKeys :
       \E n \in 1..Len(fetches) : Becomes(n, "ok") /\ FetchKey(fetches[n]) = key
  /\ \A n \in 1..Len(fetches) : Becomes(n, "failed") => CachedKeys' = CachedKeys

\* C19: every entry of the cache holds the children of an answered call for
\* its own (bucket, prefix); an entry appears only in the step in which such
\* a call is answered, a call that fails adds none; and unless the root
\* prefix changes, a step removes no entry.
CacheOnlyGrowsFromAnswers == []EntriesComeFromAnswers /\ [][EntriesAreKept]_vars

\* The cache holds the children an explicit load and a pre-fetch brought,
\* and nothing for a call that failed.
CacheOnlyGrowsFromAnswersWitness ==
  /\ \E key \in CachedKeys : fetches[loadedDirectories[key]].kind = "prefetch"
  /\ \E key \in CachedKeys : fetches[loadedDirectories[key]].kind # "prefetch"
  /\ \E n \in 1..Len(fetches) : fetches[n].status = "failed" /\ FetchKey(fetches[n]) \notin CachedKeys

\* loadDirectoryChildren of a cached prefix leaves the state as it is (no
\* call goes out) and gives the cached array.
CacheHitIsServed ==
  \A key \in CachedKeys :
    /\ loadDirectoryChildren(TreeState, key[2], "open", NoNode, 0) = TreeState
    /\ Cached(TreeState, key[2]) = loadedDirectories[key]

PrefetchCalls ==
  {fetches'[m].prefix : m \in {k \in NewCalls : fetches'[k].kind = "prefetch"}}

CacheMissIsStoredAndPrefetched ==
  \A n \in 1..Len(fetches) :
    (fetches[n].kind # "prefetch" /\ Becomes(n, "ok")) =>
      LET key == FetchKey(fetches[n])
          children == transformS3Response(StoreListing(fetches[n].prefix))
          directories == {i \in 1..Len(children) : children[i].type = "directory"}
          missing == {ChildPrefix(fetches[n].prefix, children[i].name) : i \in
                        {j \in directories :
                           CacheKey(TreeBucket, ChildPrefix(fetches[n].prefix, children[j].name))
                             \notin CachedKeys \cup {key}}}
      IN /\ key \in CachedKeys'
         /\ ArrayItems([fetches |-> fetches'], loadedDirectories'[key]) = children
         /\ loadedDirectories'[key] = n
         /\ PrefetchCalls = missing

\* C20: loadDirectoryChildren of a cached prefix gives the cached children
\* and sends nothing; when the call it sent for a prefix not cached is
\* answered, the transformed listing is stored under (bucket, prefix) and a
\* pre-fetch goes out for each child directory that is not cached, and for
\* nothing else.
LoadDirectoryChildrenUsesCache == []CacheHitIsServed /\ [][CacheMissIsStoredAndPrefetched]_vars

\* The listing of the root was stored and both its directories are being pre-fetched.
LoadDirectoryChildrenUsesCacheWitness ==
  \E n \in 1..Len(fetches) :
    /\ fetches[n].kind = "root" /\ fetches[n].status = "ok"
    /\ FetchKey(fetches[n]) \in CachedKeys
    /\ loadedDirectories[FetchKey(fetches[n])] = n
    /\ \E a, b \in 1..Len(fetches) :
         /\ a # b
         /\ fetches[a].kind = "prefetch" /\ fetches[b].kind = "prefetch"
         /\ fetches[a].prefix = ChildPrefix(fetches[n].prefix, "a")
         /\ fetches[b].prefix = ChildPrefix(fetches[n].prefix, "b")

\* Every answered call writes the entry of its key, whatever was there.
LastWriterWins ==
  \A n \in 1..Len(fetches) :
    Becomes(n, "ok") =>
      /\ FetchKey(fetches[n]) \in CachedKeys'
      /\ loadedDirectories'[FetchKey(fetches[n])] = n

\* The nodes a cache entry holds are those the listing of its prefix gives.
EntriesHoldTheListing ==
  \A key \in CachedKeys :
    ArrayItems(TreeState, loadedDirectories[key]) = transformS3Response(StoreListing(key[2]))

\* C21: each answered call overwrites the cache entry of its key, and
\* whichever call wrote last the entry holds the nodes that the transform of
\* the listing of that prefix gives.
CacheWritesAreRedundant == []EntriesHoldTheListing /\ [][LastWriterWins]_vars

\* A pre-fetch and an explicit fetch of one prefix were both answered, and the
\* entry is the one the pre-fetch wrote (it was answered last).
CacheWritesAreRedundantWitness ==
  \E m, n \in 1..Len(fetches) :
    /\ fetches[m].kind = "prefetch" /\ fetches[m].status = "ok"
    /\ fetches[n].kind = "open" /\ fetches[n].status = "ok"
    /\ FetchKey(fetches[m]) = FetchKey(fetches[n])
    /\ fetches[m].epoch = fetches[n].epoch
    /\ FetchKey(fetches[m]) \in CachedKeys
    /\ loadedDirectories[FetchKey(fetches[m])] = m
    /\ Children(TreeState, fetches[n].dir) = n

FailedLoads == {n \in 1..Len(fetches) : fetches[n].kind # "prefetch" /\ fetches[n].status = "failed"}
\* One notification for each root load or explicit navigation that failed.
OneToastPerFailedLoad == toasts = Cardinality(FailedLoads)

FailedLoadIsRecovered ==
  \A n \in 1..Len(fetches) :
    (fetches[n].kind # "prefetch" /\ Becomes(n, "failed")) =>
      /\ toasts' = toasts + 1
      /\ CachedKeys' = CachedKeys
      /\ Len(fetches') = Len(fetches)
      /\ IF fetches[n].kind = "root"
           THEN /\ currentPath'[1] \in DOMAIN nodeChildren'
                /\ nodeChildren'[currentPath'[1]] = 0
                /\ ~isRootLoading'
           ELSE /\ fetches[n].dir \in DOMAIN nodeChildren'
                /\ nodeChildren'[fetches[n].dir] = 0
                /\ fetches[n].dir \notin nodeLoading'
                /\ currentPath' = Append(currentPath, fetches[n].dir)

\* C22: a root load or an explicit navigation whose call fails raises one
\* notification, leaves the node with empty children and the cache as it
\* was, and initializeRoot or openDirectory goes on to its end (the loading
\* flag is cleared, the node is appended); no other step raises a
\* notification, so one navigation raises at most one.
FailedLoadRaisesOneToast == []OneToastPerFailedLoad /\ [][FailedLoadIsRecovered]_vars

\* The root load failed: one notification, an empty root, nothing cached.
FailedLoadRaisesOneToastWitness ==
  /\ \E n \in FailedLoads : fetches[n].kind = "root"
  /\ toasts = 1
  /\ RootChildrenArrived
  /\ nodeChildren[currentPath[1]] = 0
  /\ ~isRootLoading
  /\ CachedKeys = {}

\* An openDirectory(node) is awaiting its call.
OpenPending(node) ==
  \E n \in 1..Len(fetches) :
    fetches[n].kind = "open" /\ fetches[n].status = "pending" /\ fetches[n].dir = node

LoadingStartsOnCacheMiss ==
  \A node \in nodeLoading' \ nodeLoading : Awaited(node)

LoadingEndsWithTheCall ==
  \A n \in 1..Len(fetches) :
    (fetches[n].kind = "open" /\ (Becomes(n, "ok") \/ Becomes(n, "failed"))) =>
      fetches[n].dir \notin nodeLoading'

\* Only the end of its openDirectory clears the flag of a node, so a node
\* that is loading is waited for, and it is a directory.
LoadingIsAwaited ==
  \A node \in nodeLoading :
    /\ OpenPending(node)
    /\ NodeInfo(TreeState, node).type = "directory"

\* C23: the isLoading flag of a node becomes true only in the step in which
\* openDirectory takes the cache-miss path for it, it is cleared when the
\* call of that openDirectory is answered or fails (so a node that is
\* loading always has such a call in flight), and no file node is loading.
LoadingFollowsTheFetch ==
  []LoadingIsAwaited /\ [][LoadingStartsOnCacheMiss /\ LoadingEndsWithTheCall]_vars

\* C26: the path is a chain: each node after the first is (by name) a
\* directory among the children of the node before it, so that the prefix
\* openDirectory builds from the names of the path is the prefix the node's
\* children are listed under.
PathIsAChain ==
  \A i \in 2..Len(currentPath) :
    NamedIn(TreeState, currentPath[i - 1], NodeInfo(TreeState, currentPath[i]).name) # {}

\* C27: no directory node (object) is in the path twice.
NodeAppearsOnceInPath ==
  \A i, j \in 1..Len(currentPath) : i # j => currentPath[i] # currentPath[j]

\* C28: the cache, and the children of the root node, come from calls that
\* went out after the last change of the root prefix: a call that was in
\* flight when the cache was cleared writes into neither.
ClearedCacheHoldsNewCallsOnly ==
  /\ \A key \in CachedKeys : fetches[loadedDirectories[key]].epoch = cleared
  /\ Children(TreeState, currentPath[1]) # 0 =>
       fetches[Children(TreeState, currentPath[1])].epoch = cleared

\* A call that goes out is for the root prefix, for a directory handed to
\* openDirectory, or for a directory one level below a prefix whose listing
\* was answered to loadDirectoryChildren in this step or whose cached
\* children were given in this step to a directory entering the path.
CallsAreOneLevelAhead ==
  \A m \in NewCalls :
    LET f == fetches'[m]
        parent == SubSeq(f.prefix, 1, Len(f.prefix) - 2) \o <<"">>
        name == f.prefix[Len(f.prefix) - 1]
        key == <<f.S3Bucket, parent>>
    IN \/ /\ f.kind = "root"
          /\ f.prefix = WithSlash(treeS3Prefix)
       \/ /\ f.kind = "open"
          /\ f.dir # NoNode
          /\ NodeInfo(TreeState', f.dir).type = "directory"
          /\ NodeInfo(TreeState', f.dir).name = name
       \/ /\ f.kind = "prefetch"
          /\ Len(f.prefix) >= 3
          /\ key \in DOMAIN loadedDirectories'
          /\ \E i \in 1..Len(ArrayItems(TreeState', loadedDirectories'[key])) :
               /\ ArrayItems(TreeState', loadedDirectories'[key])[i].type = "directory"
               /\ ArrayItems(TreeState', loadedDirectories'[key])[i].name = name
          /\ \/ \E n \in 1..Len(fetches) :
                  fetches[n].kind # "prefetch" /\ Becomes(n, "ok") /\ fetches[n].prefix = parent
             \/ \E k \in (Len(currentPath) + 1)..Len(currentPath') :
                  Children(TreeState', currentPath'[k]) = loadedDirectories'[key]

\* The answer to a pre-fetch, or its failure, sends no call.
PrefetchCompletionSendsNothing ==
  \A n \in 1..Len(fetches) :
    (fetches[n].kind = "prefetch" /\ (Becomes(n, "ok") \/ Becomes(n, "failed"))) => NewCalls = {}

\* C30: pre-fetching stays one level ahead: every call is for the root
\* prefix, for a directory being opened, or for a direct child directory of
\* a directory whose children were just loaded or opened, and the completion
\* of a pre-fetch sends no further call.
PrefetchIsOneLevelAhead == [][CallsAreOneLevelAhead /\ PrefetchCompletionSendsNothing]_vars

\* The pre-fetch of lab/a/ was answered with a sub-directory c, and no call
\* for lab/a/c/ has gone out.
PrefetchIsOneLevelAheadWitness ==
  /\ \E n \in 1..Len(fetches) :
       /\ fetches[n].kind = "prefetch"
       /\ fetches[n].status = "ok"
       /\ fetches[n].prefix = <<"lab", "a", "">>
       /\ loadedDirectories[FetchKey(fetches[n])] = n
  /\ \A m \in 1..Len(fetches) : fetches[m].prefix # <<"lab", "a", "c", "">>

\* The prefix lies under the root prefix the parent passes at present.
UnderPresentRoot(prefix) ==
  LET root == IF propsS3Prefix[Len(propsS3Prefix)] = "" /\ Len(propsS3Prefix) > 1
                THEN propsS3Prefix ELSE propsS3Prefix \o <<"">>
  IN /\ Len(prefix) >= Len(root)
     /\ SubSeq(prefix, 1, Len(root) - 1) = SubSeq(root, 1, Len(root) - 1)

\* C31: once the root prefix has changed to P', every listing call sent
\* since then and every key in the cache (all written since then) is for P'
\* or for a prefix below it.
RequestsFollowTheNewPrefix ==
  cleared > 0 =>
    /\ \A n \in 1..Len(fetches) : fetches[n].epoch = cleared => UnderPresentRoot(fetches[n].prefix)
    /\ \A key \in CachedKeys : UnderPresentRoot(key[2])

\* hasOpenedStartPath is never reset.
StartPathFlagIsKept == hasOpenedStartPath => hasOpenedStartPath'

\* The loop over startPath opens a directory only in the step that sets
\* hasOpenedStartPath, or when the call its previous openDirectory awaited
\* is answered.
WalkOpensOnlyInItsRun ==
  \A m \in NewCalls :
    fetches'[m].step > 0 =>
      \/ ~hasOpenedStartPath /\ hasOpenedStartPath'
      \/ \E n \in 1..Len(fetches) :
           /\ fetches[n].step > 0
           /\ fetches[n].step < fetches'[m].step
           /\ Becomes(n, "ok")

\* With hasOpenedStartPath set, the arrival of root children (a reload after
\* a prefix change, or a failed root load) leaves the path alone and opens
\* nothing.
RootArrivalDoesNotWalkAgain ==
  \A n \in 1..Len(fetches) :
    (hasOpenedStartPath /\ fetches[n].kind = "root" /\ (Becomes(n, "ok") \/ Becomes(n, "failed"))) =>
      /\ currentPath' = currentPath
      /\ \A m \in NewCalls : fetches'[m].kind # "open"

\* C32: the startPath navigation runs at most once per component: once
\* hasOpenedStartPath is set (the loop has started, or the path was already
\* below the root), it stays set, the first step of the loop is opened at
\* most once, and no later change of the root children starts the loop again.
DeepLinkRunsAtMostOnce ==
  /\ []\A m, n \in 1..Len(fetches) : (fetches[m].step = 1 /\ fetches[n].step = 1) => m = n
  /\ [][StartPathFlagIsKept /\ WalkOpensOnlyInItsRun /\ RootArrivalDoesNotWalkAgain]_vars

\* The loop has run, the root prefix changed, and the reloaded root shows the
\* directory startPath names first; the path is still the root alone.
DeepLinkRunsAtMostOnceWitness ==
  /\ hasOpenedStartPath
  /\ cleared > 0
  /\ Len(startPath) > 0
  /\ Len(currentPath) = 1
  /\ RootChildrenArrived
  /\ NamedIn(TreeState, currentPath[1], startPath[1]) # {}
  /\ \E n \in 1..Len(fetches) : fetches[n].step = 1

\* The path is not empty and starts with the synthetic root "All Files".
PathStartsAtRoot ==
  /\ Len(currentPath) >= 1
  /\ currentPath[1] = <<0, rootCount, 0>>
  /\ NodeInfo(TreeState, currentPath[1]).name = "All Files"

\* navigateTo(index) keeps the first index + 1 nodes when index is within
\* the path, and the whole path otherwise.
NavigateToTruncates ==
  \A index \in -1..Len(currentPath) :
    navigateTo(index) =>
      /\ (index >= 0 /\ index < Len(currentPath)) =>
           /\ Len(currentPath') = index + 1
           /\ \A k \in 1..(index + 1) : currentPath'[k] = currentPath[k]
      /\ ~(index >= 0 /\ index < Len(currentPath)) => currentPath' = currentPath

\* Only the reset on a change of the root prefix puts another root in place.
RootIsReplacedOnlyByReset == currentPath'[1] # currentPath[1] => RootPrefixChanged

\* C33: the path is never empty and begins with the synthetic root;
\* navigateTo(index) with 0 <= index < length cuts the path to its first
\* index + 1 nodes and any other index leaves it as it is; the root is
\* replaced by the root-prefix reset only.
PathKeepsItsRoot ==
  []PathStartsAtRoot /\ [][NavigateToTruncates /\ RootIsReplacedOnlyByReset]_vars

\* A directory that openDirectory pushed after its call was answered is no
\* more in the path, the root prefix being unchanged: a breadcrumb cut it off.
PathKeepsItsRootWitness ==
  /\ cleared = 0
  /\ Len(currentPath) = 1
  /\ \E n \in 1..Len(fetches) :
       fetches[n].kind = "open" /\ fetches[n].status = "ok" /\ ~InPath(fetches[n].dir)

(***************************************************************************)
(* transformS3Response on its own                                          *)
(***************************************************************************)
MaxItems == 2

\* The responses transformS3Response is called with: Contents and
\* CommonPrefixes are each absent or a list of up to MaxItems entries.
Responses ==
  LET ListedObjects ==
        {S3Object(<<"lab", "">>, 0), S3Object(<<"lab", "f.txt">>, 7), S3Object(<<"g.txt">>, 3),
         [S3Object(<<"lab", "a", "h.txt">>, 7) EXCEPT !.LastModified = "2025-03-01T08:30:00Z"]}
      ListedPrefixes ==
        {S3CommonPrefix(<<"lab", "a", "">>), S3CommonPrefix(<<"b", "">>), S3CommonPrefix(<<"lab", "c">>)}
      Optional(S) == {NoArr} \cup {Arr(items) : items \in UNION {[1..k -> S] : k \in 0..MaxItems}}
  IN {TopLevelResponse(contents, commonPrefixes) :
        contents \in Optional(ListedObjects), commonPrefixes \in Optional(ListedPrefixes)}

TransformInit ==
  /\ \E response \in Responses : TransformSetup(response)
  /\ TreeSetup(<<"lab">>, <<>>)
  /\ DownloadSetup(<<"s3:", "", TreeBucket>>)
  /\ FrontEndSetup("rejects", "rejects", Undefined)
  /\ HandlerSetup(Event(Body("plain", Malformed), FALSE, Claims({"org-1"}, {}, {})))

\* const children = transformS3Response(response)
Transform ==
  /\ ~transformed.defined
  /\ transformed' = Arr(transformS3Response(listed))
  /\ UNCHANGED <<listed, handlerVars, treeVars, downloadVars, frontEndVars>>

TransformSpec == TransformInit /\ [][Transform]_vars

\* C24: the array transformS3Response returns is, in the order of Contents,
\* one file node for each object whose key does not end in "/" (named by the
\* last segment of the key, with the object's size and lastModified), and
\* after them, in the order of CommonPrefixes, one directory node for each
\* common prefix (named by the last segment of the prefix taken without its
\* trailing slash, with children []).
TransformKeepsFilesThenDirectories ==
  transformed.defined =>
    LET files == SelectSeq(listed.Contents.items, LAMBDA object : ~EndsWithSlash(object.Key))
        directories == listed.CommonPrefixes.items
        nodes == transformed.items
        Stripped(prefix) == IF prefix[Len(prefix)] = "" /\ Len(prefix) > 1
                              THEN SubSeq(prefix, 1, Len(prefix) - 1) ELSE prefix
    IN /\ Len(nodes) = Len(files) + Len(directories)
       /\ \A i \in 1..Len(files) :
            /\ nodes[i].type = "file"
            /\ nodes[i].name = files[i].Key[Len(files[i].Key)]
            /\ nodes[i].size = files[i].Size
            /\ nodes[i].lastModified = files[i].LastModified
       /\ \A j \in 1..Len(directories) :
            /\ nodes[Len(files) + j].type = "directory"
            /\ nodes[Len(files) + j].name = Stripped(directories[j].Prefix)[Len(Stripped(directories[j].Prefix))]
            /\ nodes[Len(files) + j].children = Arr(<<>>)

\* A placeholder object was dropped, a file kept, two directories follow it.
TransformKeepsFilesThenDirectoriesWitness ==
  /\ transformed.defined
  /\ Len(listed.Contents.items) = 2
  /\ EndsWithSlash(listed.Contents.items[1].Key)
  /\ Len(listed.CommonPrefixes.items) = 2
  /\ listed.CommonPrefixes.items[1] # listed.CommonPrefixes.items[2]
  /\ Len(transformed.items) = 3
  /\ transformed.items[1].type = "file"

(***************************************************************************)
(* downloadFolder: a folder downloaded as one zip archive                  *)
(***************************************************************************)
MaxFiles == 4

\* The folderS3Uri values: with and without the scheme, with and without a
\* prefix, with and without a trailing slash.
FolderUris ==
  {<<"s3:", "", TreeBucket, "lab", "a">>, <<"s3:", "", TreeBucket>>, <<TreeBucket, "lab", "a", "">>}

\* withoutScheme, slashIdx, s3Bucket and s3Prefix of downloadFolder
FolderLocation(uri) ==
  LET withoutScheme == IF Len(uri) >= 3 /\ uri[1] = "s3:" /\ uri[2] = "" THEN SubSeq(uri, 3, Len(uri)) ELSE uri
  IN [s3Bucket |-> Text(withoutScheme[1]),
      s3Prefix |-> IF Len(withoutScheme) > 1 THEN Tail(withoutScheme) ELSE Text("")]

\* What requestListBucketObjects answers with as Contents: absent, or the
\* first files of the folder lab/a (its placeholder object being one).
FolderContents ==
  LET stored == <<<<"lab", "a", "g.txt">>, <<"lab", "a", "c", "h.txt">>, <<"lab", "a", "">>>>
      Key(k) == IF k <= Len(stored) THEN stored[k] ELSE <<"lab", "a", "more", ToString(k)>>
  IN {NoArr} \cup {Arr([k \in 1..n |-> Key(k)]) : n \in 0..MaxFiles}

\* obj.Key.startsWith(s3Prefix) ? obj.Key.slice(s3Prefix.length).replace(/^\//, '') : obj.Key
\* (for the prefixes of FolderUris, which end at a slash or at the end of
\* a path segment of the keys)
RelativePath(key, prefix) ==
  LET m == Len(prefix)
      startsWith == \/ prefix = Text("")
                    \/ /\ Len(key) >= m
                       /\ SubSeq(key, 1, m - 1) = SubSeq(prefix, 1, m - 1)
                       /\ prefix[m] \in {"", key[m]}
      sliced == IF prefix = Text("") THEN key
                ELSE IF prefix[m] = "" THEN SubSeq(key, m, Len(key))
                ELSE Text("") \o SubSeq(key, m + 1, Len(key))
  IN IF ~startsWith THEN key
     ELSE IF Len(sliced) >= 2 /\ sliced[1] = "" THEN Tail(sliced) ELSE sliced

RoundDown(a, b) == a \div b
\* Math.round(a / b) for a >= 0, b > 0
Round(a, b) == (2 * a + b) \div (2 * b)

DownloadInit ==
  /\ \E uri \in FolderUris : DownloadSetup(uri)
  /\ FrontEndSetup("rejects", "rejects", Undefined)
  /\ TreeSetup(<<"lab">>, <<>>)
  /\ TransformSetup(TopLevelResponse(NoArr, NoArr))
  /\ HandlerSetup(Event(Body("plain", Malformed), FALSE, Claims({"org-1"}, {}, {})))

\* downloadFolder is called: it awaits requestListBucketObjects
downloadFolder ==
  /\ downloadPc = "idle"
  /\ downloadPc' = "listing"
  /\ UNCHANGED <<folderS3Uri, objects, settled, completedCount, progressRef, zip, saved, notices>>
  /\ UNCHANGED <<handlerVars, treeVars, transformVars, frontEndVars>>

\* The listing resolves: an empty folder ends the call, otherwise one
\* download callback per object is started.
FolderListed ==
  /\ downloadPc = "listing"
  /\ \E contents \in FolderContents :
       /\ objects' = contents.items
       /\ IF Len(contents.items) = 0
            THEN /\ notices' = Append(notices, "info")
                 /\ progressRef' = 100
                 /\ downloadPc' = "done"
            ELSE /\ downloadPc' = "files"
                 /\ UNCHANGED <<notices, progressRef>>
  /\ UNCHANGED <<folderS3Uri, settled, completedCount, zip, saved>>
  /\ UNCHANGED <<handlerVars, treeVars, transformVars, frontEndVars>>

\* Variant: the catch block leaves the progress value as it is.
DownloadFailedWithoutProgress ==
  /\ notices' = Append(notices, "error")
  /\ downloadPc' = "done"
  /\ UNCHANGED <<folderS3Uri, objects, settled, completedCount, progressRef, zip, saved>>
  /\ UNCHANGED <<handlerVars, treeVars, transformVars, frontEndVars>>
\* catch (error) of downloadFolder
DownloadFailed ==
  /\ notices' = Append(notices, "error")
  /\ progressRef' = 100
  /\ downloadPc' = "done"
  /\ UNCHANGED <<folderS3Uri, objects, settled, completedCount, zip, saved>>
  /\ UNCHANGED <<handlerVars, treeVars, transformVars, frontEndVars>>

\* The listing rejects.
FolderListFails ==
  /\ downloadPc = "listing"
  /\ DownloadFailed

\* Variant: a file that cannot be fetched ends the download in the catch block.
FileSettlesOrAborts(i, outcome) ==
  /\ downloadPc = "files"
  /\ i \notin settled
  /\ IF outcome = "added"
       THEN /\ zip' = zip \cup {RelativePath(objects[i], FolderLocation(folderS3Uri).s3Prefix)}
            /\ settled' = settled \cup {i}
            /\ completedCount' = completedCount + 1
            /\ progressRef' = Round((completedCount + 1) * 90, Len(objects))
            /\ downloadPc' = IF settled' = 1..Len(objects) THEN "zip" ELSE "files"
            /\ UNCHANGED <<folderS3Uri, objects, saved, notices>>
            /\ UNCHANGED <<handlerVars, treeVars, transformVars, frontEndVars>>
       ELSE DownloadFailed
\* The callback of object i runs to its end: the file is added to the zip
\* (outcome "added"), or there is no DownloadUrl, or one of the two requests
\* rejects; the finally block counts it.  When the last callback has ended,
\* Promise.allSettled resolves and zip.generateAsync is called.
FileSettles(i, outcome) ==
  /\ downloadPc = "files"
  /\ i \notin settled
  /\ zip' = IF outcome = "added"
              THEN zip \cup {RelativePath(objects[i], FolderLocation(folderS3Uri).s3Prefix)}
              ELSE zip
  /\ settled' = settled \cup {i}
  /\ completedCount' = completedCount + 1
  /\ progressRef' = Round((completedCount + 1) * 90, Len(objects))
  /\ downloadPc' = IF settled' = 1..Len(objects) THEN "zip" ELSE "files"
  /\ UNCHANGED <<folderS3Uri, objects, saved, notices>>
  /\ UNCHANGED <<handlerVars, treeVars, transformVars, frontEndVars>>

FileCallbackEnds ==
  /\ downloadPc = "files"
  /\ \E i \in 1..Len(objects), outcome \in {"added", "noUrl", "urlFailed", "getFailed"} : FileSettles(i, outcome)

\* JSZip calls onUpdate with a percentage of 0..100.
ZipUpdate ==
  /\ downloadPc = "zip"
  /\ \E percent \in 0..100 : progressRef' = 90 + Round(percent, 10)
  /\ UNCHANGED <<folderS3Uri, downloadPc, objects, settled, completedCount, zip, saved, notices>>
  /\ UNCHANGED <<handlerVars, treeVars, transformVars, frontEndVars>>

\* zip.generateAsync resolves: saveAs, then setProgress(100)
ZipGenerated ==
  /\ downloadPc = "zip"
  /\ saved' = Append(saved, zip)
  /\ progressRef' = 100
  /\ downloadPc' = "done"
  /\ UNCHANGED <<folderS3Uri, objects, settled, completedCount, zip, notices>>
  /\ UNCHANGED <<handlerVars, treeVars, transformVars, frontEndVars>>

\* zip.generateAsync rejects.
ZipFails ==
  /\ downloadPc = "zip"
  /\ DownloadFailed

DownloadNext ==
  \/ downloadFolder
  \/ FolderListed
  \/ FolderListFails
  \/ FileCallbackEnds
  \/ ZipUpdate
  \/ ZipGenerated
  \/ ZipFails

DownloadSpec == DownloadInit /\ [][DownloadNext]_vars

(***************************************************************************)
(* downloadFolder: properties                                              *)
(***************************************************************************)
\* When a download callback ends, the value written is j / n * 90 rounded to
\* the nearest integer (j files of n have ended), it is not below the value
\* before it, and it is at most 90.
FileProgressIsRounded ==
  completedCount' # completedCount =>
    LET j == completedCount'
        n == Len(objects)
    IN /\ j = completedCount + 1
       /\ 2 * n * progressRef' <= 2 * 90 * j + n
       /\ 2 * 90 * j + n < 2 * n * (progressRef' + 1)
       /\ progressRef' >= progressRef
       /\ progressRef' <= 90

\* While the zip is generated the value is within 90..100.
ZipProgressIsWithinRange == downloadPc = "zip" => progressRef \in 90..100

\* C25: downloadFolder reports progress in two phases: after the j-th of n
\* files has completed, in whatever order, the value is round(j / n * 90),
\* never smaller than before and never above 90; every value written while
\* the zip is generated is within 90..100.
DownloadProgressHasTwoPhases == []ZipProgressIsWithinRange /\ [][FileProgressIsRounded]_vars

\* Three of four files have completed, the first one not yet: 67.5 was
\* rounded to 68.
DownloadProgressHasTwoPhasesWitness ==
  /\ downloadPc = "files"
  /\ Len(objects) = 4
  /\ completedCount = 3
  /\ 1 \notin settled
  /\ progressRef = 68

\* C34: a downloadFolder call that has returned has left the progress value
\* at 100, and its outcome is one of: the folder was empty (one info toast,
\* nothing saved), the zip was saved (no toast), or the listing or the zip
\* generation failed (one error toast, nothing saved).
DownloadEndsAtHundred ==
  downloadPc = "done" =>
    /\ progressRef = 100
    /\ \/ /\ Len(objects) = 0
          /\ notices = <<"info">>
          /\ saved = <<>>
          /\ zip = {}
       \/ /\ Len(objects) > 0
          /\ completedCount = Len(objects)
          /\ notices = <<>>
          /\ Len(saved) = 1
       \/ /\ notices = <<"error">>
          /\ saved = <<>>

\* The zip generation failed after every file had been fetched.
DownloadEndsAtHundredWitness ==
  /\ downloadPc = "done"
  /\ notices = <<"error">>
  /\ Len(objects) > 1
  /\ completedCount = Len(objects)
  /\ zip # {}
  /\ progressRef = 100

\* A file that is not fetched (no DownloadUrl, or one of its two requests
\* rejected) is counted, adds nothing to the zip, raises no toast and leaves
\* the download running.
FailedFileIsSkipped ==
  \A i \in 1..Len(objects), outcome \in {"noUrl", "urlFailed", "getFailed"} :
    FileSettles(i, outcome) =>
      /\ completedCount' = completedCount + 1
      /\ progressRef' * Len(objects) * 2 <= 2 * 90 * completedCount' + Len(objects)
      /\ 2 * 90 * completedCount' + Len(objects) < (progressRef' + 1) * Len(objects) * 2
      /\ zip' = zip
      /\ notices' = notices
      /\ saved' = saved
      /\ downloadPc' = IF \A k \in 1..Len(objects) : k = i \/ k \in settled THEN "zip" ELSE "files"

\* A file that is fetched is added to the zip whatever happened to the others,
\* and what is saved at the end is the zip with the files added.
OtherFilesAreZipped ==
  /\ \A i \in 1..Len(objects) :
       FileSettles(i, "added") => (zip \subseteq zip' /\ Cardinality(zip') = Cardinality(zip) + 1)
  /\ Len(saved') > Len(saved) => (saved' = <<zip>> /\ notices' = <<>>)

\* C35: a file of the folder that cannot be fetched is skipped and nothing
\* else: it counts for the progress, the other files are zipped and saved,
\* no error toast is raised for it and the download goes on to the zip
\* generation.
OneFailedFileIsOnlySkipped == [][FailedFileIsSkipped /\ OtherFilesAreZipped]_vars

\* A folder of three objects was saved with two of them in the zip and no
\* toast: one file was skipped.
OneFailedFileIsOnlySkippedWitness ==
  /\ downloadPc = "done"
  /\ Len(objects) = 3
  /\ Len(saved) = 1
  /\ Cardinality(saved[1]) = 2
  /\ notices = <<>>
  /\ progressRef = 100

(***************************************************************************)
(* The toast store                                                         *)
(***************************************************************************)
MaxToasts == 3

ToastInit ==
  /\ FrontEndSetup("rejects", "rejects", Undefined)
  /\ TreeSetup(<<"lab">>, <<>>)
  /\ TransformSetup(TopLevelResponse(NoArr, NoArr))
  /\ DownloadSetup(<<"s3:", "", TreeBucket>>)
  /\ HandlerSetup(Event(Body("plain", Malformed), FALSE, Claims({"org-1"}, {}, {})))

\* Variant: the newest toast is dropped when one bears the id.
removeNewest(id) ==
  /\ toastList' = IF \E k \in 1..Len(toastList) : toastList[k].id = id
                    THEN SubSeq(toastList, 1, Len(toastList) - 1) ELSE toastList
  /\ UNCHANGED <<uuids, session, callbackPc, userData, orgs, redirects>>
  /\ UNCHANGED <<handlerVars, treeVars, transformVars, downloadVars>>
\* remove(id)
remove(id) ==
  /\ toastList' = SelectSeq(toastList, LAMBDA toast : toast.id # id)
  /\ UNCHANGED <<uuids, session, callbackPc, userData, orgs, redirects>>
  /\ UNCHANGED <<handlerVars, treeVars, transformVars, downloadVars>>

\* info, success, warning and error: one toast is pushed.  uuid is what
\* uuidv4() returns: a value it has not returned before, or one of those.
notify(variant, title, timeout, uuid) ==
  /\ Len(toastList) < MaxToasts
  /\ uuid <= uuids + 1
  /\ toastList' = Append(toastList,
       [id |-> "toast-" \o ToString(uuid), title |-> title, variant |-> variant, timeout |-> timeout])
  /\ uuids' = IF uuid > uuids THEN uuid ELSE uuids
  /\ UNCHANGED <<session, callbackPc, userData, orgs, redirects>>
  /\ UNCHANGED <<handlerVars, treeVars, transformVars, downloadVars>>

ToastSpec ==
  /\ ToastInit
  /\ [][\/ \E k \in 1..MaxToasts : remove("toast-" \o ToString(k))
        \/ \E variant \in {"info", "success", "warning", "error"}, title \in {"Saved"},
              timeout \in {Num(5000)}, uuid \in 1..MaxToasts :
             notify(variant, title, timeout, uuid)]_vars

\* remove(id) keeps the toasts with another id, every one of them, in the
\* order they had, and nothing else; when no toast bears the id, the list
\* is left as it is (so that a second remove(id) changes nothing).
RemoveDeletesById ==
  \A n \in 1..MaxToasts :
    LET id == "toast-" \o ToString(n) IN
    remove(id) =>
      LET kept == {k \in 1..Len(toastList) : toastList[k].id # id}
          Nth(j) == CHOOSE k \in kept : Cardinality({m \in kept : m < k}) = j - 1
      IN /\ Len(toastList') = Cardinality(kept)
         /\ \A j \in 1..Len(toastList') : toastList'[j] = toastList[Nth(j)]
         /\ \A j \in 1..Len(toastList') : toastList'[j].id # id
         /\ kept = 1..Len(toastList) => toastList' = toastList

\* Each of info, success, warning and error puts one toast of its variant,
\* with the title and timeout given and an id "toast-...", at the end.
NotifyAppendsOne ==
  \A variant \in {"info", "success", "warning", "error"}, title \in {"Saved"},
     timeout \in {Num(5000)}, uuid \in 1..MaxToasts :
    notify(variant, title, timeout, uuid) =>
      /\ Len(toastList') = Len(toastList) + 1
      /\ \A k \in 1..Len(toastList) : toastList'[k] = toastList[k]
      /\ toastList'[Len(toastList')].variant = variant
      /\ toastList'[Len(toastList')].title = title
      /\ toastList'[Len(toastList')].timeout = timeout
      /\ toastList'[Len(toastList')].id = "toast-" \o ToString(uuid)

\* C37: remove(id) deletes exactly the toasts whose id is id and keeps the
\* others in their order; an id that no toast bears leaves the list
\* unchanged, so a second remove(id) does nothing; info, success, warning
\* and error each append exactly one toast of that variant.
ToastStoreKeepsOrder == [][RemoveDeletesById /\ NotifyAppendsOne]_vars

\* Three ids were given out and the toast of the second is gone: it was
\* removed, the first and the third kept their order.
ToastStoreKeepsOrderWitness ==
  /\ uuids = 3
  /\ Len(toastList) = 2
  /\ toastList[1].id = "toast-1"
  /\ toastList[1].variant = "error"
  /\ toastList[2].id = "toast-3"
  /\ toastList[2].variant = "info"

(***************************************************************************)
(* The OAuth callback page                                                 *)
(***************************************************************************)
\* What Amplify holds when the page is mounted.  user is what
\* Auth.currentAuthenticatedUser() settles with: "rejects", "null" (it
\* resolves with no user) or the name of a user object; token is what
\* getToken() and decodeJwt make of the token: "rejects", "undecodable" or
\* "decodable", the last with the DefaultLaboratory field of the payload.
CallbackInit ==
  /\ \E user \in {"rejects", "null", "user-1", "user-2"} :
       \/ \E token \in {"rejects", "undecodable"} : FrontEndSetup(user, token, Undefined)
       \/ \E defaultLaboratory \in {Undefined, Str(""), Str("lab-1"), Str("lab-2")} :
            FrontEndSetup(user, "decodable", defaultLaboratory)
  /\ TreeSetup(<<"lab">>, <<>>)
  /\ TransformSetup(TopLevelResponse(NoArr, NoArr))
  /\ DownloadSetup(<<"s3:", "", TreeBucket>>)
  /\ HandlerSetup(Event(Body("plain", Malformed), FALSE, Claims({"org-1"}, {}, {})))

\* onMounted runs up to its first await, Auth.currentAuthenticatedUser().
onMounted ==
  /\ callbackPc = "created"
  /\ callbackPc' = "auth"
  /\ UNCHANGED <<toastList, uuids, session, userData, orgs, redirects>>
  /\ UNCHANGED <<handlerVars, treeVars, transformVars, downloadVars>>

\* currentAuthenticatedUser settles: a rejection goes to the outer catch
\* and navigateTo('/signin'); with a user the inner try starts; if (user)
\* has no else, so without a user the callback returns.
AuthSettles ==
  /\ callbackPc = "auth"
  /\ callbackPc' = IF session.user \in {"rejects", "null"} THEN "done" ELSE "userData"
  /\ redirects' = IF session.user = "rejects" THEN Append(redirects, "/signin") ELSE redirects
  /\ UNCHANGED <<toastList, uuids, session, userData, orgs>>
  /\ UNCHANGED <<handlerVars, treeVars, transformVars, downloadVars>>

\* setCurrentUserDataFromToken() settles, and after it loadOrgs(): a
\* rejection of either is caught by the inner catch, which only logs, and
\* the callback goes on to getToken().
DataSettles(outcome) ==
  /\ callbackPc \in {"userData", "orgs"}
  /\ callbackPc' = IF callbackPc = "userData" /\ outcome = "resolves" THEN "orgs" ELSE "token"
  /\ userData' = IF callbackPc = "userData" /\ outcome = "resolves" THEN session.user ELSE userData
  /\ orgs' = IF callbackPc = "orgs" /\ outcome = "resolves" THEN "loaded" ELSE orgs
  /\ UNCHANGED <<toastList, uuids, session, redirects>>
  /\ UNCHANGED <<handlerVars, treeVars, transformVars, downloadVars>>

\* getToken() settles and decodeJwt reads the token: a rejection or a
\* throw goes to the outer catch and navigateTo('/signin'); otherwise
\* if (defaultLab) picks `/labs/${defaultLab}` or '/labs'.
TokenSettles ==
  /\ callbackPc = "token"
  /\ callbackPc' = "done"
  /\ redirects' = Append(redirects,
       IF session.token # "decodable" THEN "/signin"
       ELSE IF Truthy(session.DefaultLaboratory) THEN "/labs/" \o session.DefaultLaboratory.s
       ELSE "/labs")
  /\ UNCHANGED <<toastList, uuids, session, userData, orgs>>
  /\ UNCHANGED <<handlerVars, treeVars, transformVars, downloadVars>>

CallbackSpec ==
  /\ CallbackInit
  /\ [][\/ onMounted
        \/ AuthSettles
        \/ \E outcome \in {"resolves", "rejects"} : DataSettles(outcome)
        \/ TokenSettles]_vars

\* C36: a run of the callback that has ended has made exactly one
\* redirect: to /signin when authentication or the token failed, else to
\* /labs/{DefaultLaboratory} when the token carries one and to /labs when
\* it does not, whatever became of the user data and the organizations.
CallbackEndsWithOneRedirect ==
  callbackPc = "done" =>
    /\ Len(redirects) = 1
    /\ redirects[1] =
         IF session.user = "rejects" \/ session.token # "decodable" THEN "/signin"
         ELSE IF Truthy(session.DefaultLaboratory) THEN "/labs/" \o session.DefaultLaboratory.s
         ELSE "/labs"

====
